---- MODULE Spec2Model ----
(***************************************************************************)
(* Model of the Chedraui shopping-list integration:                        *)
(*   api.py   ChedrauiClient  (session state machine, request handling,    *)
(*            cart normalisation)                                          *)
(*   todo.py  ChedrauiShoppingListEntity (checklist create/update/delete,  *)
(*            text parser, cart item <-> checklist item mapping)          *)
(*   const.py the unit tables                                              *)
(*   __init__.py the add_item, remove_item, update_item and set_quantity   *)
(*            service handlers                                             *)
(*                                                                         *)
(* Texts are sequences of one-character strings, so that parsing and       *)
(* formatting are computed character by character.  The alphabet is ASCII. *)
(* Optional values: None is the empty tuple, a present value v is <<v>>.   *)
(* Floats are fixed-point integers counting hundredths (250 is 2.5).       *)
(***************************************************************************)
EXTENDS Integers, Sequences, FiniteSets, TLC

VARIABLES
    is_authenticated,   \* ChedrauiClient._is_authenticated
    data,               \* coordinator.data: the latest cart snapshot
    op,                 \* the checklist/client operation in progress
    sent,               \* the requests sent during the current operation
    refreshes,          \* coordinator.async_request_refresh calls of the operation
    cookies,            \* ChedrauiClient._cookies
    calls,              \* the feature calls that run concurrently on the client
    rt                  \* the value under conversion in the pure-function specifications

vars == <<is_authenticated, data, op, sent, refreshes, cookies, calls, rt>>

(***************************************************************************)
(* Optional values                                                         *)
(***************************************************************************)
None == <<>>
Some(v) == <<v>>
IsNone(o) == Len(o) = 0
IsSome(o) == Len(o) = 1
Val(o) == o[1]

(***************************************************************************)
(* Characters and the str methods the code uses                            *)
(***************************************************************************)
DigitChars == <<"0", "1", "2", "3", "4", "5", "6", "7", "8", "9">>
LowerChars == <<"a", "b", "c", "d", "e", "f", "g", "h", "i", "j", "k", "l", "m",
                "n", "o", "p", "q", "r", "s", "t", "u", "v", "w", "x", "y", "z">>
UpperChars == <<"A", "B", "C", "D", "E", "F", "G", "H", "I", "J", "K", "L", "M",
                "N", "O", "P", "Q", "R", "S", "T", "U", "V", "W", "X", "Y", "Z">>

Range(s) == {s[i] : i \in 1..Len(s)}
IndexIn(c, s) == CHOOSE i \in 1..Len(s) : s[i] = c

IsDigit(c) == c \in Range(DigitChars)
IsLower(c) == c \in Range(LowerChars)
IsUpper(c) == c \in Range(UpperChars)
IsLetter(c) == IsLower(c) \/ IsUpper(c)
IsSpace(c) == c = " "
IsWordChar(c) == IsDigit(c) \/ IsLetter(c) \/ c = "_"

InClass(c, class) ==
    CASE class = "digit" -> IsDigit(c)
      [] class = "letter" -> IsLetter(c)
      [] class = "space" -> IsSpace(c)
      [] class = "word" -> IsWordChar(c)

\* str.lower() and str.upper()
LowerChar(c) == IF IsUpper(c) THEN LowerChars[IndexIn(c, UpperChars)] ELSE c
UpperChar(c) == IF IsLower(c) THEN UpperChars[IndexIn(c, LowerChars)] ELSE c
lower(s) == [i \in 1..Len(s) |-> LowerChar(s[i])]
upper(s) == [i \in 1..Len(s) |-> UpperChar(s[i])]

\* str.strip()
RECURSIVE lstrip(_)
lstrip(s) == IF s # <<>> /\ IsSpace(Head(s)) THEN lstrip(Tail(s)) ELSE s
RECURSIVE rstrip(_)
rstrip(s) ==
    IF s # <<>> /\ IsSpace(s[Len(s)]) THEN rstrip(SubSeq(s, 1, Len(s) - 1)) ELSE s
strip(s) == rstrip(lstrip(s))

\* str.isdigit()
isdigit(s) == s # <<>> /\ \A i \in 1..Len(s) : IsDigit(s[i])

\* str.replace(",", ".")
ReplaceComma(s) == [i \in 1..Len(s) |-> IF s[i] = "," THEN "." ELSE s[i]]

\* The text as one string: the key of a dict lookup.
RECURSIVE Join(_)
Join(s) == IF s = <<>> THEN "" ELSE Head(s) \o Join(Tail(s))

(***************************************************************************)
(* Floats: fixed point, hundredths                                         *)
(***************************************************************************)
Scale == 10 * 10

DigitValue(c) == IndexIn(c, DigitChars) - 1

RECURSIVE DigitsToNat(_)
DigitsToNat(s) ==
    IF s = <<>> THEN 0
    ELSE 10 * DigitsToNat(SubSeq(s, 1, Len(s) - 1)) + DigitValue(s[Len(s)])

RECURSIVE NatToDigits(_)
NatToDigits(n) ==
    IF n < 10 THEN <<DigitChars[n + 1]>>
    ELSE NatToDigits(n \div 10) \o <<DigitChars[(n % 10) + 1]>>

\* The fractional digits of a numeral as hundredths (texts of the model carry
\* at most two fractional digits).
FracToHundredths(s) ==
    IF Len(s) = 0 THEN 0
    ELSE IF Len(s) = 1 THEN 10 * DigitValue(s[1])
    ELSE 10 * DigitValue(s[1]) + DigitValue(s[2])

\* The position of the first "." of s, or 0.
DotAt(s) ==
    IF \E i \in 1..Len(s) : s[i] = "."
    THEN CHOOSE i \in 1..Len(s) : s[i] = "." /\ \A j \in 1..(i - 1) : s[j] # "."
    ELSE 0

\* float(text) of Python for the numerals of the model's alphabet: surrounding
\* whitespace, an optional sign, digits with an optional "." and digits.
\* Returns None where float() raises ValueError.
NumeralToFloat(ip, fp) ==
    IF /\ \A i \in 1..Len(ip) : IsDigit(ip[i])
       /\ \A i \in 1..Len(fp) : IsDigit(fp[i])
       /\ Len(ip) + Len(fp) > 0
    THEN Some(Scale * DigitsToNat(ip) + FracToHundredths(fp))
    ELSE None

SplitNumeral(s, d) ==
    NumeralToFloat(IF d = 0 THEN s ELSE SubSeq(s, 1, d - 1),
                   IF d = 0 THEN <<>> ELSE SubSeq(s, d + 1, Len(s)))

UnsignedToFloat(s) == SplitNumeral(s, DotAt(s))

Signed(sign, u) == IF sign = "-" /\ IsSome(u) THEN Some(0 - Val(u)) ELSE u

StrippedToFloat(s) ==
    IF s = <<>> THEN None
    ELSE IF Head(s) \in {"-", "+"} THEN Signed(Head(s), UnsignedToFloat(Tail(s)))
    ELSE UnsignedToFloat(s)

StrToFloat(text) == StrippedToFloat(strip(text))

\* A value, or the default when there is none.
OrDefault(o, default) == IF IsSome(o) THEN o ELSE default

\* str(float): the shortest decimal, with at least one fractional digit.
FloatToStr(q) ==
    LET a == IF q < 0 THEN 0 - q ELSE q
        f == a % Scale
        fracText == IF f % 10 = 0 THEN <<DigitChars[(f \div 10) + 1]>>
                    ELSE <<DigitChars[(f \div 10) + 1], DigitChars[(f % 10) + 1]>>
    IN (IF q < 0 THEN <<"-">> ELSE <<>>) \o NatToDigits(a \div Scale) \o <<".">> \o fracText

\* Python truthiness of a str | None: None and "" are falsy.
TruthyStr(o) == IsSome(o) /\ Val(o) # <<>>

\* `a or b` on float | None (None and 0.0 are falsy) and on str | None
PyOrFloat(a, b) == IF IsSome(a) /\ Val(a) # 0 THEN a ELSE b
PyOrText(a, b) == IF TruthyStr(a) THEN a ELSE b

(***************************************************************************)
(* const.py: the unit tables                                               *)
(***************************************************************************)
PIECE_UNIT == <<"E", "A">>
WEIGHT_UNIT_KG == <<"K", "G", "M">>
WEIGHT_UNIT_G == <<"G", "R", "M">>
WEIGHT_UNIT_LB == <<"L", "B", "R">>
VOLUME_UNIT_L == <<"L", "T", "R">>
VOLUME_UNIT_ML == <<"M", "L", "T">>

MEASUREMENT_TYPE_PIECE == <<"p", "i", "e", "c", "e">>
MEASUREMENT_TYPE_WEIGHT == <<"w", "e", "i", "g", "h", "t">>
MEASUREMENT_TYPE_VOLUME == <<"v", "o", "l", "u", "m", "e">>

PieceAliases == {"pieza", "piezas", "pz", "pieza(s)", "piece", "pieces", "ea",
                 "unit", "units", "unidad", "unidades"}
KgAliases == {"kg", "kilogram", "kilograms", "kilogramo", "kilogramos", "kilo", "kilos"}
GramAliases == {"g", "gr", "gram", "grams", "gramo", "gramos"}
PoundAliases == {"lb", "lbs", "pound", "pounds"}
LiterAliases == {"l", "lt", "liter", "liters", "litro", "litros"}
MlAliases == {"ml", "mililitro", "mililitros"}

\* UNIT_ALIASES, keyed by the spelling as one string.
UNIT_ALIASES ==
    [k \in PieceAliases \cup KgAliases \cup GramAliases \cup PoundAliases
           \cup LiterAliases \cup MlAliases |->
        CASE k \in PieceAliases -> PIECE_UNIT
          [] k \in KgAliases -> WEIGHT_UNIT_KG
          [] k \in GramAliases -> WEIGHT_UNIT_G
          [] k \in PoundAliases -> WEIGHT_UNIT_LB
          [] k \in LiterAliases -> VOLUME_UNIT_L
          [] k \in MlAliases -> VOLUME_UNIT_ML]

UNIT_TO_MEASUREMENT_TYPE ==
    [u \in {PIECE_UNIT, WEIGHT_UNIT_KG, WEIGHT_UNIT_G, WEIGHT_UNIT_LB,
            VOLUME_UNIT_L, VOLUME_UNIT_ML} |->
        CASE u = PIECE_UNIT -> MEASUREMENT_TYPE_PIECE
          [] u \in {WEIGHT_UNIT_KG, WEIGHT_UNIT_G, WEIGHT_UNIT_LB} -> MEASUREMENT_TYPE_WEIGHT
          [] u \in {VOLUME_UNIT_L, VOLUME_UNIT_ML} -> MEASUREMENT_TYPE_VOLUME]

\* UNIT_ALIASES.get(text): None when text is no alias.
AliasGet(text) ==
    IF Join(text) \in DOMAIN UNIT_ALIASES THEN Some(UNIT_ALIASES[Join(text)]) ELSE None

\* UNIT_ALIASES.get(text.lower(), text.upper())
ResolveAlias(text) == Val(OrDefault(AliasGet(lower(text)), Some(upper(text))))

\* UNIT_TO_MEASUREMENT_TYPE.get(unit)
MeasurementTypeGet(unit) ==
    IF unit \in DOMAIN UNIT_TO_MEASUREMENT_TYPE
    THEN Some(UNIT_TO_MEASUREMENT_TYPE[unit]) ELSE None

(***************************************************************************)
(* todo.py: _coerce_float, _normalize_str, the text parser                 *)
(***************************************************************************)
\* A value of type Any as the code inspects it: null, a number or a text.
\* A float n counts hundredths; an int n is the integer itself.
JNull == [t |-> "null", n |-> 0, s |-> <<>>]
JInt(n) == [t |-> "int", n |-> n, s |-> <<>>]
JNum(n) == [t |-> "num", n |-> n, s |-> <<>>]
JStr(s) == [t |-> "str", n |-> 0, s |-> s]

\* Python truthiness of such a value.
Truthy(v) ==
    CASE v.t = "null" -> FALSE
      [] v.t \in {"int", "num"} -> v.n # 0
      [] v.t = "str" -> v.s # <<>>

\* str(value)
PyStr(v) ==
    CASE v.t = "null" -> <<"N", "o", "n", "e">>
      [] v.t = "int" -> (IF v.n < 0 THEN <<"-">> ELSE <<>>)
                        \o NatToDigits(IF v.n < 0 THEN 0 - v.n ELSE v.n)
      [] v.t = "num" -> FloatToStr(v.n)
      [] v.t = "str" -> v.s

\* dict.get(key) on a mapping with text keys: null when the key is absent.
RawGet(raw, key) == IF key \in DOMAIN raw THEN raw[key] ELSE JNull

\* raw.get(k1) or raw.get(k2) or ... or last
RECURSIVE OrChain(_, _, _)
OrChain(raw, keys, last) ==
    IF keys = <<>> THEN last
    ELSE IF Truthy(RawGet(raw, Head(keys))) THEN RawGet(raw, Head(keys))
    ELSE OrChain(raw, Tail(keys), last)

\* _coerce_float(value, default=default)
_coerce_float(value, default) ==
    CASE value.t = "null" -> default
      [] value.t = "int" -> Some(Scale * value.n)
      [] value.t = "num" -> Some(value.n)
      [] value.t = "str" -> OrDefault(StrToFloat(ReplaceComma(value.s)), default)
      [] OTHER -> default

\* _normalize_str(value)
_normalize_str(value) ==
    IF value.t = "str" /\ value.s # <<>> THEN Some(strip(value.s)) ELSE None

\* The end (exclusive) of the longest run of characters of a class from i.
RECURSIVE RunEnd(_, _, _)
RunEnd(text, i, class) ==
    IF i <= Len(text) /\ InClass(text[i], class) THEN RunEnd(text, i + 1, class) ELSE i

\* A search that returns the rightmost match.
Rightmost(matches) ==
    IF \E m \in matches : m.ok
    THEN Some(CHOOSE m \in matches : m.ok /\ \A n \in matches : n.ok => n.start <= m.start)
    ELSE None

\* The leftmost of a set of matches, or None when no match is ok.
Leftmost(matches) ==
    IF \E m \in matches : m.ok
    THEN Some(CHOOSE m \in matches : m.ok /\ \A n \in matches : n.ok => m.start <= n.start)
    ELSE None

\* _DESCRIPTION_REGEX matched at position i:
\*   (?P<quantity>\d+(?:[\.,]\d+)?)\s*(?P<unit>[a-zA-Záéíóúñ]+)   (re.IGNORECASE)
\* over the texts of the model, whose letters are a-z and A-Z.
\* d, q, w, u are the ends (exclusive) of the digits, the quantity, the
\* whitespace and the unit.  Every quantifier is greedy and no shorter choice
\* can make the rest match (after a shorter digit run comes a digit, after a
\* dropped fraction comes the separator), so the greedy choice decides.
HasFraction(text, d) ==
    /\ d <= Len(text)
    /\ text[d] \in {".", ","}
    /\ RunEnd(text, d + 1, "digit") > d + 1

DescriptionMatch(text, i, d, q, w, u) ==
    [ok |-> d > i /\ u > w, start |-> i,
     quantity |-> SubSeq(text, i, q - 1), unit |-> SubSeq(text, w, u - 1)]

DescriptionUnit(text, i, d, q, w) ==
    DescriptionMatch(text, i, d, q, w, RunEnd(text, w, "letter"))

DescriptionSpace(text, i, d, q) == DescriptionUnit(text, i, d, q, RunEnd(text, q, "space"))

DescriptionQuantity(text, i, d) ==
    DescriptionSpace(text, i, d,
                     IF HasFraction(text, d) THEN RunEnd(text, d + 1, "digit") ELSE d)

DescriptionMatchAt(text, i) == DescriptionQuantity(text, i, RunEnd(text, i, "digit"))

\* _DESCRIPTION_REGEX.search(text): the leftmost match, or None.
DescriptionSearch(text) == Leftmost({DescriptionMatchAt(text, i) : i \in 1..Len(text)})

ProductIdTag == <<"p", "r", "o", "d", "u", "c", "t", "_", "i", "d">>

\* _PRODUCT_ID_REGEX matched at position i (re.IGNORECASE):
\*   product_id\s*[:=]\s*(?P<product_id>\w+)
\* e, s1, s2, w are the ends (exclusive) of the tag, the whitespace before
\* and after the separator, and the id.
ProductIdMatch(text, i, e, s1, s2, w) ==
    [ok |-> /\ e - 1 <= Len(text)
            /\ lower(SubSeq(text, i, e - 1)) = ProductIdTag
            /\ s1 <= Len(text)
            /\ text[s1] \in {":", "="}
            /\ w > s2,
     start |-> i,
     product_id |-> SubSeq(text, s2, w - 1)]

ProductIdWord(text, i, e, s1, s2) == ProductIdMatch(text, i, e, s1, s2, RunEnd(text, s2, "word"))

ProductIdSeparator(text, i, e, s1) ==
    ProductIdWord(text, i, e, s1, RunEnd(text, s1 + 1, "space"))

ProductIdMatchAt(text, i) ==
    ProductIdSeparator(text, i, i + Len(ProductIdTag),
                       RunEnd(text, i + Len(ProductIdTag), "space"))

\* _PRODUCT_ID_REGEX.search(text)
ProductIdSearch(text) == Leftmost({ProductIdMatchAt(text, i) : i \in 1..Len(text)})

\* ParsedText(quantity, unit, measurement_type, product_id)
ParsedText(quantity, unit, measurement_type, product_id) ==
    [quantity |-> quantity, unit |-> unit,
     measurement_type |-> measurement_type, product_id |-> product_id]

\* _parse_text lines 213-218 given the unit: measurement_type from the table.
ParsedWithUnit(match, unit, product_match) ==
    ParsedText(IF IsSome(match) THEN _coerce_float(JStr(Val(match).quantity), None)
               ELSE None,
               unit,
               IF IsSome(unit) THEN MeasurementTypeGet(Val(unit)) ELSE None,
               IF IsSome(product_match) THEN Some(Val(product_match).product_id) ELSE None)

ParsedFrom(match, product_match) ==
    ParsedWithUnit(match,
                   IF IsSome(match) THEN Some(ResolveAlias(Val(match).unit)) ELSE None,
                   product_match)

\* _parse_text(text) -> ParsedText
_parse_text(text) == ParsedFrom(DescriptionSearch(text), ProductIdSearch(text))

(***************************************************************************)
(* api.py: the cart normaliser                                             *)
(***************************************************************************)
\* ChedrauiClient._extract_float(value, default=default)
_extract_float(value, default) ==
    CASE value.t = "null" -> default
      [] value.t = "int" -> Some(Scale * value.n)
      [] value.t = "num" -> Some(value.n)
      [] value.t = "str" -> OrDefault(StrToFloat(ReplaceComma(value.s)), default)
      [] OTHER -> default

Producto == <<"P", "r", "o", "d", "u", "c", "t", "o">>

\* The first key of keys whose value is a non-empty text, or None.
RECURSIVE FirstText(_, _)
FirstText(raw, keys) ==
    IF keys = <<>> THEN None
    ELSE IF RawGet(raw, Head(keys)).t = "str" /\ RawGet(raw, Head(keys)).s # <<>>
         THEN Some(RawGet(raw, Head(keys)).s)
    ELSE FirstText(raw, Tail(keys))

\* ChedrauiClient._extract_name(raw)
_extract_name(raw) ==
    Val(OrDefault(FirstText(raw, <<"productName", "name", "description">>), Some(Producto)))

\* A unit extraction that keeps the remote's spelling, uppercased.
UnitOfSpelling(value, measurement) ==
    IF IsSome(value) THEN upper(Val(value))
    ELSE IF measurement.t = "str" /\ measurement.s # <<>> THEN upper(measurement.s)
    ELSE <<>>

\* _extract_unit lines 379-380 (normalized or value.upper()) and 382-386
UnitOf(value, measurement) ==
    IF IsSome(value) THEN Val(PyOrText(AliasGet(lower(Val(value))), Some(upper(Val(value)))))
    ELSE IF measurement.t = "str" /\ measurement.s # <<>>
    THEN Val(PyOrText(AliasGet(lower(measurement.s)), Some(PIECE_UNIT)))
    ELSE PIECE_UNIT

\* ChedrauiClient._extract_unit(raw)
_extract_unit(raw) ==
    UnitOf(FirstText(raw, <<"uom", "unitOfMeasure", "unit", "measure">>),
           OrChain(raw, <<"measurementUnit">>, RawGet(raw, "measurement")))

\* CartItem(item_id, product_id, name, quantity, unit, measurement_type, price)
CartItem(item_id, product_id, name, quantity, unit, measurement_type, price) ==
    [item_id |-> item_id, product_id |-> product_id, name |-> name,
     quantity |-> quantity, unit |-> unit, measurement_type |-> measurement_type,
     price |-> price]

\* _parse_cart_items lines 341-365, given the identity and the unit
CartItemWith(raw, item_id, unit) ==
    IF item_id = <<>> THEN None
    ELSE Some(CartItem(
            item_id,
            PyStr(OrChain(raw, <<"productId", "catEntryId", "catalogEntryId",
                                "productPartNumber">>, JStr(<<>>))),
            _extract_name(raw),
            Val(_extract_float(RawGet(raw, "quantity"), Some(Scale))),
            unit,
            Val(OrDefault(MeasurementTypeGet(unit), Some(MEASUREMENT_TYPE_PIECE))),
            _extract_float(OrChain(raw, <<"price", "offerPrice", "unitPrice">>,
                                   RawGet(raw, "orderItemAmount")), None)))

\* One record of the response as ChedrauiClient._parse_cart_items reads it
\* (lines 333-365): None when the record is dropped (no identity key).
CartItemOf(raw) ==
    CartItemWith(raw, PyStr(OrChain(raw, <<"orderItemId", "id", "itemId">>, JStr(<<>>))),
                 _extract_unit(raw))

\* An exception: its class and, for a request error, the status it carries.
Error(kind, status) == [kind |-> kind, status |-> status]
NoError == Error("none", None)

\* A decoded response body: null, a mapping m from keys to decoded values, a
\* list, or a text.  A list entry is <<raw>> for a mapping, <<>> for null and
\* Scalar(v) for a text or a number.
DataNull == [t |-> "null", m |-> <<>>, list |-> <<>>, text |-> <<>>]
DataDict(m) == [t |-> "dict", m |-> m, list |-> <<>>, text |-> <<>>]
DataList(list) == [t |-> "list", m |-> <<>>, list |-> list, text |-> <<>>]
DataText(text) == [t |-> "text", m |-> <<>>, list |-> <<>>, text |-> text]
Scalar(v) == <<"scalar", v>>

\* data.get(key) of a mapping
DictGet(d, key) == IF key \in DOMAIN d.m THEN Some(d.m[key]) ELSE None

\* `not data`: null, an empty mapping, an empty list, an empty text.
DataFalsy(d) ==
    \/ d.t = "null"
    \/ d.t = "dict" /\ DOMAIN d.m = {}
    \/ d.t = "list" /\ d.list = <<>>
    \/ d.t = "text" /\ d.text = <<>>

\* The value is present and truthy.
TruthyData(o) == IsSome(o) /\ ~DataFalsy(Val(o))

\* data.get("orderItem") or data.get("orderItems") or []
OrderItemsOf(d) ==
    CASE d.t = "dict" ->
            IF TruthyData(DictGet(d, "orderItem")) THEN Val(DictGet(d, "orderItem"))
            ELSE IF TruthyData(DictGet(d, "orderItems")) THEN Val(DictGet(d, "orderItems"))
            ELSE DataList(<<>>)
      [] d.t = "list" -> d
      [] OTHER -> DataList(<<>>)

\* What `for raw in value` yields: the entries of a list, the characters of
\* a text, the keys of a mapping (texts).
EntriesOf(v) ==
    CASE v.t = "list" -> v.list
      [] v.t = "text" -> [i \in 1..Len(v.text) |-> Scalar(JStr(<<v.text[i]>>))]
      [] v.t = "dict" -> [i \in 1..Cardinality(DOMAIN v.m) |-> Scalar(JStr(<<"k">>))]
      [] OTHER -> <<>>

AttributeError == Error("AttributeError", None)
TypeError == Error("TypeError", None)

\* The error the loop `for raw in value: ... raw.get(...)` raises: null is
\* not iterable, and an entry that is neither null nor a mapping has no get.
IterationError(v) ==
    IF v.t = "null" THEN TypeError
    ELSE IF \E i \in 1..Len(EntriesOf(v)) : Len(EntriesOf(v)[i]) = 2 THEN AttributeError
    ELSE NoError

RECURSIVE CartItemsOf(_)
CartItemsOf(entries) ==
    IF entries = <<>> THEN <<>>
    ELSE (IF IsSome(Head(entries)) THEN CartItemOf(Val(Head(entries))) ELSE <<>>)
         \o CartItemsOf(Tail(entries))

\* The error _parse_cart_items(data) raises, if any.
CartParseError(d) == IF DataFalsy(d) THEN NoError ELSE IterationError(OrderItemsOf(d))

\* ChedrauiClient._parse_cart_items(data), when it raises nothing
_parse_cart_items(d) ==
    IF DataFalsy(d) THEN <<>> ELSE CartItemsOf(EntriesOf(OrderItemsOf(d)))

\* ChedrauiClient._default_unit_for_measurement(measurement_type)
_default_unit_for_measurement(measurement_type) ==
    LET m == lower(measurement_type)
    IN CASE m = MEASUREMENT_TYPE_PIECE -> Some(PIECE_UNIT)
         [] m = MEASUREMENT_TYPE_WEIGHT -> Some(WEIGHT_UNIT_KG)
         [] m = MEASUREMENT_TYPE_VOLUME -> Some(VOLUME_UNIT_L)
         [] OTHER -> None

\* A normalisation that sends an unknown unit as it is spelled.
KnownUnitOrSpelling(normalized_unit) == normalized_unit

\* _normalize_unit lines 400-406: an unknown unit falls back to piece.
KnownUnitOrPiece(normalized_unit) ==
    IF IsNone(normalized_unit) THEN None
    ELSE IF Val(normalized_unit) \notin DOMAIN UNIT_TO_MEASUREMENT_TYPE
         THEN Some(UNIT_ALIASES["ea"])
    ELSE normalized_unit

\* ChedrauiClient._normalize_unit(unit, measurement_type)
ClientNormalizeUnit(unit, measurement_type) ==
    IF IsNone(unit) /\ IsNone(measurement_type) THEN None
    ELSE KnownUnitOrPiece(
            IF TruthyStr(unit) THEN Some(ResolveAlias(Val(unit)))
            ELSE IF TruthyStr(measurement_type)
                 THEN _default_unit_for_measurement(Val(measurement_type))
            ELSE None)

(***************************************************************************)
(* api.py: the search normaliser (the fields this model reads)             *)
(***************************************************************************)
\* The raw records of a decoded search response (lines 435-446).
SearchRawItems(d) ==
    CASE d.t = "dict" ->
            IF IsSome(DictGet(d, "catalogEntryView")) THEN Val(DictGet(d, "catalogEntryView"))
            ELSE IF IsSome(DictGet(d, "product")) /\ Val(DictGet(d, "product")).t = "dict"
            THEN Val(OrDefault(DictGet(Val(DictGet(d, "product")), "docs"),
                               Some(DataList(<<>>))))
            ELSE Val(OrDefault(DictGet(d, "items"), Some(DataList(<<>>))))
      [] d.t = "list" -> d
      [] OTHER -> DataList(<<>>)

\* ChedrauiClient._extract_search_name(raw)
_extract_search_name(raw) ==
    Val(OrDefault(FirstText(raw, <<"name", "productName", "shortDescription",
                                  "description">>), Some(Producto)))

\* _parse_search_results lines 459-493, given the product id
ProductSummaryWith(raw, product_id) ==
    IF product_id = <<>> THEN None
    ELSE Some([product_id |-> product_id,
               sku |-> PyStr(OrChain(raw, <<"sku", "partNumber">>, JStr(product_id))),
               name |-> _extract_search_name(raw)])

ProductSummaryOf(raw) ==
    ProductSummaryWith(raw, PyStr(OrChain(raw, <<"partNumber", "uniqueID", "productId",
                                                "id">>, JStr(<<>>))))

RECURSIVE ProductSummariesOf(_)
ProductSummariesOf(entries) ==
    IF entries = <<>> THEN <<>>
    ELSE (IF IsSome(Head(entries)) THEN ProductSummaryOf(Val(Head(entries))) ELSE <<>>)
         \o ProductSummariesOf(Tail(entries))

\* The error _parse_search_results(data) raises, if any.
SearchParseError(d) == IF DataFalsy(d) THEN NoError ELSE IterationError(SearchRawItems(d))

\* ChedrauiClient._parse_search_results(data), when it raises nothing
_parse_search_results(d) ==
    IF DataFalsy(d) THEN <<>> ELSE ProductSummariesOf(EntriesOf(SearchRawItems(d)))

(***************************************************************************)
(* todo.py: checklist items and the reconciliation mapper                  *)
(***************************************************************************)
NEEDS_ACTION == "needs_action"
COMPLETED == "completed"

\* TodoItem(summary, uid, status, description, extra)
TodoItem(summary, uid, status, description, extra) ==
    [summary |-> summary, uid |-> uid, status |-> status,
     description |-> description, extra |-> extra]

Cantidad == <<"C", "a", "n", "t", "i", "d", "a", "d", ":", " ">>

\* ChedrauiShoppingListEntity._cart_item_to_todo(item), item not None
_cart_item_to_todo(item) ==
    TodoItem(item.name, Some(item.item_id), NEEDS_ACTION,
             Some(IF item.unit # <<>>
                  THEN Cantidad \o FloatToStr(item.quantity) \o <<" ">> \o item.unit
                  ELSE Cantidad \o FloatToStr(item.quantity)),
             Some([product_id |-> JStr(item.product_id),
                   quantity |-> JNum(item.quantity),
                   unit |-> JStr(item.unit),
                   measurement_type |-> JStr(item.measurement_type)]))

\* ChedrauiShoppingListEntity._normalize_unit(unit)
EntityNormalizeUnit(unit) ==
    IF unit.t = "str" /\ unit.s # <<>> THEN Some(ResolveAlias(unit.s)) ELSE None

\* `if item.extra` / `if item.description`
HasExtra(item) == IsSome(item.extra) /\ DOMAIN Val(item.extra) # {}
HasDescription(item) == TruthyStr(item.description)

Args(product_id, quantity, unit, measurement_type) ==
    [product_id |-> product_id, quantity |-> quantity, unit |-> unit,
     measurement_type |-> measurement_type,
     weight |-> None]       \* the checklist passes no weight to the client

\* The values the extra tags give: async_create_todo_item lines 80-91 (quantity
\* defaults to 1.0) and async_update_todo_item lines 124-131 (no default).
TagArgs(item, default_quantity) ==
    IF HasExtra(item)
    THEN Args(_normalize_str(RawGet(Val(item.extra), "product_id")),
              OrDefault(_coerce_float(RawGet(Val(item.extra), "quantity"), None),
                        default_quantity),
              EntityNormalizeUnit(RawGet(Val(item.extra), "unit")),
              _normalize_str(RawGet(Val(item.extra), "measurement_type")))
    ELSE Args(None, default_quantity, None, None)

\* The parsed description over the tag values, lines 95-99 and 135-137:
\*   quantity = parsed.quantity or quantity, ...
MergeParsed(tags, parsed) ==
    Args(IF TruthyStr(parsed.product_id) THEN parsed.product_id ELSE tags.product_id,
         PyOrFloat(parsed.quantity, tags.quantity),
         PyOrText(parsed.unit, tags.unit),
         PyOrText(parsed.measurement_type, tags.measurement_type))

\* async_create_todo_item lines 80-99: the tags, then the parsed description.
CreateMerge(item) ==
    IF HasDescription(item)
    THEN MergeParsed(TagArgs(item, Some(Scale)), _parse_text(Val(item.description)))
    ELSE TagArgs(item, Some(Scale))

\* async_update_todo_item lines 124-137: as on create, without product_id.
UpdateMerge(item) ==
    [(IF HasDescription(item)
      THEN MergeParsed(TagArgs(item, None), _parse_text(Val(item.description)))
      ELSE TagArgs(item, None)) EXCEPT !.product_id = None]

(***************************************************************************)
(* api.py: requests, responses, errors                                     *)
(***************************************************************************)
\* ChedrauiClient.__init__ line 112: the cookie set starts empty.
NoCookies == [name \in {} |-> None]

\* A request as the remote sees it; authenticated records the client's state
\* when it was sent and cookies the cookie set it was sent with (_request
\* line 264).
Request(method, path, id, quantity, uom, limit) ==
    [method |-> method, path |-> path, id |-> id, quantity |-> quantity,
     uom |-> uom, limit |-> limit, weight |-> None, authenticated |-> FALSE,
     cookies |-> NoCookies]

NoRequest == Request("", "", <<>>, None, None, 0)

\* async_login lines 121-131
LoginRequest == Request("POST", "loginidentity", <<>>, None, None, 0)

\* async_get_cart lines 145-148
GetCartRequest == Request("GET", "cart/@self", <<>>, None, None, 0)

\* async_add_to_cart lines 162-181
AddRequest(args) ==
    [Request("POST", "cart", Val(args.product_id), args.quantity,
             PyOrText(ClientNormalizeUnit(args.unit, args.measurement_type), None), 0)
        EXCEPT !.weight = args.weight]

\* async_update_cart_item lines 199-219: with nothing to update the cart is
\* read instead.
UpdateRequest(item_id, args) ==
    IF IsNone(args.quantity) /\ IsNone(args.unit) /\ IsNone(args.weight)
        /\ IsNone(args.measurement_type)
    THEN GetCartRequest
    ELSE [Request("PUT", "cart", item_id, args.quantity,
                  ClientNormalizeUnit(args.unit, args.measurement_type), 0)
            EXCEPT !.weight = args.weight]

\* async_remove_from_cart lines 224-227
RemoveRequest(item_id) == Request("DELETE", "cart/@self/{item_id}", item_id, None, None, 0)

\* async_search_products lines 233-240
SearchRequest(query, limit) ==
    Request("GET", "productview/bySearchTerm/{query}", query, None, None, limit)

IsLogin(r) == r.path = LoginRequest.path
IsAdd(r) == r.method = "POST" /\ r.path = "cart"
IsSearch(r) == r.path = SearchRequest(<<>>, 0).path

JsonContentType == "application/json"

\* A response: err is a transport failure (aiohttp.ClientError), timeout the
\* expiry of REQUEST_TIMEOUT before the response arrived, else status,
\* content type and body: body is what response.json() decodes, text what
\* response.text() reads of a body of another content type.  cookies maps
\* the names of response.cookies to the optional value of their morsel.
Response(err, status, body) ==
    [err |-> err, timeout |-> FALSE, status |-> status,
     content_type |-> JsonContentType, body |-> body, text |-> <<>>,
     cookies |-> NoCookies]

\* A response of content type text/html with the body text.
TextResponse(status, text) ==
    [Response(FALSE, status, DataNull) EXCEPT !.content_type = "text/html", !.text = text]

\* No response within REQUEST_TIMEOUT.
TimedOut == [Response(FALSE, 0, DataNull) EXCEPT !.timeout = TRUE]

\* The response with the Set-Cookie headers set_cookies.
WithCookies(resp, set_cookies) == [resp EXCEPT !.cookies = set_cookies]

\* A client that keeps the cookies of successful responses only.
UpdateCookiesOnSuccess(jar, resp) ==
    IF resp.err \/ resp.timeout \/ resp.status >= 400 THEN jar
    ELSE [name \in DOMAIN jar \cup {n \in DOMAIN resp.cookies : IsSome(resp.cookies[n])} |->
            IF name \in DOMAIN resp.cookies /\ IsSome(resp.cookies[name])
            THEN Val(resp.cookies[name]) ELSE jar[name]]

\* ChedrauiClient._update_cookies lines 312-317 after _request line 271: every
\* response that arrived, whatever its status, sets its cookies in the set.
_update_cookies(jar, resp) ==
    IF resp.err \/ resp.timeout THEN jar
    ELSE [name \in DOMAIN jar \cup {n \in DOMAIN resp.cookies : IsSome(resp.cookies[n])} |->
            IF name \in DOMAIN resp.cookies /\ IsSome(resp.cookies[name])
            THEN Val(resp.cookies[name]) ELSE jar[name]]

ChedrauiAuthError == Error("ChedrauiAuthError", None)
ChedrauiRequestError(status) == Error("ChedrauiRequestError", status)
ValueError == Error("ValueError", None)
TimeoutError == Error("TimeoutError", None)

\* How a call ended: kind is "ok" or the error raised.
Ok(value) == [kind |-> "ok", status |-> None, value |-> value]
Raised(error) == [kind |-> error.kind, status |-> error.status, value |-> DataNull]
NoResult == [kind |-> "none", status |-> None, value |-> DataNull]

\* _request lines 284: the statuses that raise
IsErrorStatus(status) == status >= 400

\* _request lines 255-310 once the exchange is over: re-authenticate, raise
\* or return the decoded body.
\* Line 249 names the payload json, so within _request json is the payload
\* (None or a mapping), not the module: json.loads (line 306) and
\* json.JSONDecodeError (line 307) are attribute lookups on the payload, and
\* both raise AttributeError.  The timeout of line 255 raises TimeoutError,
\* which the except clause of line 266 (ClientError) does not catch.
RequestOutcome(resp, allow_reauth) ==
    IF resp.timeout
    THEN [kind |-> "raise", error |-> TimeoutError, value |-> DataNull]
    ELSE IF resp.err
    THEN [kind |-> "raise", error |-> ChedrauiRequestError(None), value |-> DataNull]
    ELSE IF resp.status = 401 /\ allow_reauth
    THEN [kind |-> "reauth", error |-> NoError, value |-> DataNull]
    ELSE IF IsErrorStatus(resp.status)
    THEN [kind |-> "raise",
          error |-> IF resp.status = 401 THEN ChedrauiAuthError
                    ELSE ChedrauiRequestError(Some(resp.status)),
          value |-> DataNull]
    ELSE IF resp.content_type = JsonContentType
    THEN [kind |-> "return", error |-> NoError, value |-> resp.body]
    ELSE IF resp.text = <<>>
    THEN [kind |-> "return", error |-> NoError, value |-> DataNull]
    ELSE [kind |-> "raise", error |-> AttributeError, value |-> DataNull]

(***************************************************************************)
(* The operation in progress                                               *)
(*   epc: where the checklist operation is: "idle", "resolve" (awaiting    *)
(*        the product search), "mutate" (awaiting add/update/remove),      *)
(*        "refresh" (awaiting the coordinator's cart read), "call" (a bare *)
(*        client call), "done"                                             *)
(*   cpc: where the client call is: "ensure" (login of                     *)
(*        async_ensure_authenticated next), "send" (the request next),     *)
(*        "relogin" (login after a 401 next), "retry" (the retried request *)
(*        next), "returned" (the call is over, the caller resumes next)    *)
(***************************************************************************)
NoItem == TodoItem(<<>>, None, NEEDS_ACTION, None, None)

\* No feature call runs beside the operation.
NoCalls == <<>>
NoArgs == Args(None, None, None, None)

IdleOp ==
    [kind |-> "idle", item |-> NoItem, args |-> NoArgs, epc |-> "idle", cpc |-> "none",
     req |-> NoRequest,     \* the request of the client call in progress
     calls |-> <<>>,        \* the client calls the operation has made
     first |-> 1,           \* index in sent of the first request of the current call
     anon |-> FALSE,        \* the client was anonymous when the current call began
     seen |-> <<>>,         \* the responses the current call has received
     ret |-> NoResult,      \* how the latest client call's _request ended
     created |-> None,      \* the CartItem async_add_to_cart returned
     at |-> "idle",         \* the epc at which the operation ended
     result |-> NoResult]   \* how the operation ended

NewOp(kind, item, args) == [IdleOp EXCEPT !.kind = kind, !.item = item, !.args = args]

\* The operation ends: it returns a value or raises.
Finish(o, result) ==
    [o EXCEPT !.epc = "done", !.cpc = "none", !.at = o.epc, !.result = result]

\* A client whose calls never log in first.
FirstStepNeverLogin(authenticated) == "send"

\* async_ensure_authenticated: log in first when anonymous.
FirstStep(authenticated) == IF authenticated THEN "send" ELSE "ensure"

\* A client call begins (each begins with async_ensure_authenticated).
BeginCall(o, epc, req) ==
    [o EXCEPT !.epc = epc, !.req = req, !.cpc = FirstStep(is_authenticated),
              !.calls = Append(o.calls, req), !.first = Len(sent) + 1,
              !.anon = ~is_authenticated, !.seen = <<>>]

\* A _request whose retry may re-authenticate again.
AllowReauthAlways(cpc) == TRUE

\* _request line 273: allow_reauth is True for the first attempt only.
AllowReauth(cpc) == cpc = "send"

\* async_login lines 133-136: the login succeeded.
LoginSucceeded(out) == out.kind = "return" /\ out.value.t # "null"

(***************************************************************************)
(* ChedrauiClient.async_login: one exchange with the login endpoint, from  *)
(* async_ensure_authenticated or from _request after a 401.                *)
(***************************************************************************)
Login(resp) ==
    /\ op.cpc \in {"ensure", "relogin"}
    /\ sent' = Append(sent, [LoginRequest EXCEPT !.authenticated = is_authenticated,
                                                !.cookies = cookies])
    /\ cookies' = _update_cookies(cookies, resp)
    /\ LET out == RequestOutcome(resp, FALSE)
       IN IF LoginSucceeded(out)
          THEN /\ is_authenticated' = TRUE
               /\ op' = [op EXCEPT !.cpc = IF op.cpc = "ensure" THEN "send" ELSE "retry",
                                   !.seen = Append(op.seen, resp)]
          ELSE /\ UNCHANGED is_authenticated
               /\ op' = [op EXCEPT !.cpc = "returned", !.seen = Append(op.seen, resp),
                                   !.ret = IF out.kind = "raise" THEN Raised(out.error)
                                           ELSE Raised(ChedrauiAuthError)]
    /\ UNCHANGED <<data, refreshes, calls, rt>>

\* A _request that drops what its retry returned.
SendDroppingRetry(resp) ==
    /\ op.cpc \in {"send", "retry"}
    /\ sent' = Append(sent, [op.req EXCEPT !.authenticated = is_authenticated,
                                          !.cookies = cookies])
    /\ cookies' = _update_cookies(cookies, resp)
    /\ LET out == RequestOutcome(resp, AllowReauth(op.cpc))
       IN CASE out.kind = "reauth" ->
                 /\ is_authenticated' = FALSE
                 /\ op' = [op EXCEPT !.cpc = "relogin", !.seen = Append(op.seen, resp)]
            [] out.kind = "raise" ->
                 /\ UNCHANGED is_authenticated
                 /\ op' = [op EXCEPT !.cpc = "returned", !.seen = Append(op.seen, resp),
                                     !.ret = Raised(out.error)]
            [] out.kind = "return" ->
                 /\ UNCHANGED is_authenticated
                 /\ op' = [op EXCEPT !.cpc = "returned", !.seen = Append(op.seen, resp),
                                     !.ret = IF op.cpc = "retry" THEN Ok(DataNull)
                                             ELSE Ok(out.value)]
    /\ UNCHANGED <<data, refreshes, calls, rt>>

(***************************************************************************)
(* ChedrauiClient._request: one exchange of the call's own request.        *)
(***************************************************************************)
Send(resp) ==
    /\ op.cpc \in {"send", "retry"}
    /\ sent' = Append(sent, [op.req EXCEPT !.authenticated = is_authenticated,
                                          !.cookies = cookies])
    /\ cookies' = _update_cookies(cookies, resp)
    /\ LET out == RequestOutcome(resp, AllowReauth(op.cpc))
       IN CASE out.kind = "reauth" ->
                 /\ is_authenticated' = FALSE
                 /\ op' = [op EXCEPT !.cpc = "relogin", !.seen = Append(op.seen, resp)]
            [] out.kind = "raise" ->
                 /\ UNCHANGED is_authenticated
                 /\ op' = [op EXCEPT !.cpc = "returned", !.seen = Append(op.seen, resp),
                                     !.ret = Raised(out.error)]
            [] out.kind = "return" ->
                 /\ UNCHANGED is_authenticated
                 /\ op' = [op EXCEPT !.cpc = "returned", !.seen = Append(op.seen, resp),
                                     !.ret = Ok(out.value)]
    /\ UNCHANGED <<data, refreshes, calls, rt>>

(***************************************************************************)
(* todo.py: the checklist operations                                       *)
(***************************************************************************)
\* An update that never treats an item as completed.
IsCompletedNever(item) == FALSE

\* A resolution that never takes the summary as the product id.
IsLiteralProductIdNever(summary) == FALSE

\* An update that answers with an empty item when the lookup finds nothing.
UpdateResultOrEmpty(item, snapshot) ==
    LET hits == {i \in 1..Len(snapshot) : snapshot[i].item_id = Val(item.uid)}
    IN IF hits = {} THEN NoItem
       ELSE _cart_item_to_todo(snapshot[CHOOSE i \in hits : \A j \in hits : i <= j])

\* async_update_todo_item line 119
IsCompleted(item) == item.status = COMPLETED

\* _resolve_product_id line 160: the summary is the product id itself.
IsLiteralProductId(summary) == isdigit(summary)

\* async_update_todo_item lines 146-150: the refreshed item, else the input.
UpdateResult(item, snapshot) ==
    LET hits == {i \in 1..Len(snapshot) : snapshot[i].item_id = Val(item.uid)}
    IN IF hits = {} THEN item
       ELSE _cart_item_to_todo(snapshot[CHOOSE i \in hits : \A j \in hits : i <= j])

\* The service handlers that change the cart (__init__.py lines 119-151).
ServiceKinds == {"add_item", "remove_item", "update_item", "set_quantity"}

\* What the operation returns once the refresh has been requested.
Completed(o, snapshot) ==
    CASE o.kind = "create" -> Finish(o, Ok(_cart_item_to_todo(Val(o.created))))
      [] o.kind = "update" ->
            Finish(o, Ok(IF IsCompleted(o.item) THEN o.item
                         ELSE UpdateResult(o.item, snapshot)))
      [] o.kind = "delete" -> Finish(o, Ok(None))
      [] o.kind \in ServiceKinds -> Finish(o, Ok(None))

\* async_create_todo_item line 106: the add once the product id is known.
BeginAdd(o, args) == BeginCall([o EXCEPT !.args = args], "mutate", AddRequest(args))

\* async_create_todo_item lines 101-106 with _resolve_product_id lines 157-162:
\* the product id the item carries, else the summary when it is digits, else
\* a search for the summary.
CreateWith(item, args, summary) ==
    IF IsSome(args.product_id) THEN BeginAdd(NewOp("create", item, args), args)
    ELSE IF summary = <<>> THEN Finish(NewOp("create", item, args), Raised(ValueError))
    ELSE IF IsLiteralProductId(summary)
    THEN BeginAdd(NewOp("create", item, args), [args EXCEPT !.product_id = Some(summary)])
    ELSE BeginCall(NewOp("create", item, args), "resolve", SearchRequest(summary, 1))

\* ChedrauiShoppingListEntity.async_create_todo_item up to its first await.
Create(item) ==
    /\ op.kind = "idle"
    /\ op' = CreateWith(item, CreateMerge(item), strip(item.summary))
    /\ UNCHANGED <<is_authenticated, data, sent, refreshes, cookies, calls, rt>>

\* async_update_todo_item lines 139-144: the update with the merged values.
BeginUpdate(item, args) ==
    BeginCall(NewOp("update", item, args), "mutate", UpdateRequest(Val(item.uid), args))

\* ChedrauiShoppingListEntity.async_update_todo_item up to its first await
\* (lines 116-144).
Update(item) ==
    /\ op.kind = "idle"
    /\ op' = IF IsNone(item.uid)
             THEN Finish(NewOp("update", item, NoArgs), Raised(ValueError))
             ELSE IF IsCompleted(item)
             THEN BeginCall(NewOp("update", item, NoArgs), "mutate",
                            RemoveRequest(Val(item.uid)))
             ELSE BeginUpdate(item, UpdateMerge(item))
    /\ UNCHANGED <<is_authenticated, data, sent, refreshes, cookies, calls, rt>>

\* ChedrauiShoppingListEntity.async_delete_todo_item up to its await.
Delete(uid) ==
    /\ op.kind = "idle"
    /\ op' = BeginCall(NewOp("delete", [NoItem EXCEPT !.uid = Some(uid)], NoArgs),
                       "mutate", RemoveRequest(uid))
    /\ UNCHANGED <<is_authenticated, data, sent, refreshes, cookies, calls, rt>>

\* The values a service call carries for the client (call.data), weight
\* included.
ServiceArgs(product_id, quantity, unit, measurement_type, weight) ==
    [Args(product_id, quantity, unit, measurement_type) EXCEPT !.weight = weight]

\* handle_add up to its await: async_add_to_cart with str(product_id) and
\* quantity 1.0 when the call gives none.
HandleAdd(product_id, args) ==
    /\ op.kind = "idle"
    /\ op' = BeginAdd(NewOp("add_item", NoItem, args),
                      [args EXCEPT !.product_id = Some(PyStr(product_id)),
                                   !.quantity = OrDefault(args.quantity, Some(Scale))])
    /\ UNCHANGED <<is_authenticated, data, sent, refreshes, cookies, calls, rt>>

\* handle_remove up to its await: async_remove_from_cart(str(item_id)).
HandleRemove(item_id) ==
    /\ op.kind = "idle"
    /\ op' = BeginCall(NewOp("remove_item", [NoItem EXCEPT !.uid = Some(PyStr(item_id))],
                             NoArgs),
                       "mutate", RemoveRequest(PyStr(item_id)))
    /\ UNCHANGED <<is_authenticated, data, sent, refreshes, cookies, calls, rt>>

\* handle_update and handle_set_quantity (kind names which) up to their
\* await: async_update_cart_item(str(item_id), ...).
HandleUpdate(kind, item_id, args) ==
    /\ op.kind = "idle"
    /\ op' = BeginCall(NewOp(kind, [NoItem EXCEPT !.uid = Some(PyStr(item_id))], args),
                       "mutate", UpdateRequest(PyStr(item_id), args))
    /\ UNCHANGED <<is_authenticated, data, sent, refreshes, cookies, calls, rt>>

\* The coordinator's periodic poll: _async_update_data calls async_get_cart.
GetCart ==
    /\ op.kind = "idle"
    /\ op' = BeginCall(NewOp("get_cart", NoItem, NoArgs), "call", GetCartRequest)
    /\ UNCHANGED <<is_authenticated, data, sent, refreshes, cookies, calls, rt>>

\* handle_search: async_search_products(query, limit).
Search(query, limit) ==
    /\ op.kind = "idle"
    /\ op' = BeginCall(NewOp("search", [NoItem EXCEPT !.summary = query], NoArgs),
                       "call", SearchRequest(query, limit))
    /\ UNCHANGED <<is_authenticated, data, sent, refreshes, cookies, calls, rt>>

\* coordinator.async_request_refresh(): the refresh is requested; it runs now
\* (a cart read) or the coordinator defers it (the snapshot stays).
RequestRefresh(o, now) ==
    /\ refreshes' = refreshes + 1
    /\ op' = IF now THEN BeginCall(o, "refresh", GetCartRequest) ELSE Completed(o, data)
    /\ UNCHANGED data

\* _resolve_product_id lines 162-166, then async_create_todo_item lines 102-106
Resolved(results) ==
    /\ op' = IF Len(results) = 0 THEN Finish(op, Raised(ValueError))
             ELSE BeginAdd(op, [op.args EXCEPT !.product_id = Some(results[1].product_id)])
    /\ UNCHANGED <<data, refreshes>>

\* async_add_to_cart lines 183-186, then async_create_todo_item line 112
Added(items, now) ==
    IF Len(items) = 0
    THEN /\ op' = Finish(op, Raised(ChedrauiRequestError(None)))
         /\ UNCHANGED <<data, refreshes>>
    ELSE RequestRefresh([op EXCEPT !.created = Some(items[Len(items)])], now)

\* coordinator.py line 29: the snapshot is replaced, the operation returns.
Refreshed(snapshot) ==
    /\ data' = snapshot
    /\ op' = Completed(op, snapshot)
    /\ UNCHANGED refreshes

\* The poll's cart read returned.
Polled(snapshot) ==
    /\ data' = snapshot
    /\ op' = Finish(op, Ok(snapshot))
    /\ UNCHANGED refreshes

\* The awaited client call returned value: the operation goes on.
CallReturned(value, now) ==
    CASE op.epc = "resolve" -> Resolved(_parse_search_results(value))
      [] op.epc = "mutate" /\ IsAdd(op.req) -> Added(_parse_cart_items(value), now)
      [] op.epc = "mutate" /\ ~IsAdd(op.req) -> RequestRefresh(op, now)
      [] op.epc = "refresh" -> Refreshed(_parse_cart_items(value))
      [] op.epc = "call" /\ op.kind = "get_cart" -> Polled(_parse_cart_items(value))
      [] op.epc = "call" /\ op.kind = "search" ->
            /\ op' = Finish(op, Ok(_parse_search_results(value)))
            /\ UNCHANGED <<data, refreshes>>

\* An operation that requests the refresh also when its mutation raised.
CallRaisedRefreshing(ret) ==
    /\ op' = IF op.epc = "refresh" THEN Completed(op, data) ELSE Finish(op, ret)
    /\ refreshes' = IF op.epc = "mutate" THEN refreshes + 1 ELSE refreshes
    /\ UNCHANGED data

\* The awaited client call raised: the error reaches the operation's caller,
\* except in the refresh, whose failure the coordinator records (the snapshot
\* stays).
CallRaised(ret) ==
    /\ op' = IF op.epc = "refresh" THEN Completed(op, data) ELSE Finish(op, ret)
    /\ UNCHANGED <<data, refreshes>>

\* The error the client call raises when it normalises the decoded body
\* (async_get_cart line 149, async_add_to_cart line 182,
\* async_update_cart_item line 220, async_search_products line 240;
\* async_remove_from_cart normalises nothing).
ParseError(req, value) ==
    CASE IsSearch(req) -> SearchParseError(value)
      [] req.method = "DELETE" -> NoError
      [] OTHER -> CartParseError(value)

\* The caller of the client call resumes.
Resume(now) ==
    /\ op.cpc = "returned"
    /\ IF op.ret.kind # "ok" THEN CallRaised(op.ret)
       ELSE IF ParseError(op.req, op.ret.value) # NoError
       THEN CallRaised(Raised(ParseError(op.req, op.ret.value)))
       ELSE CallReturned(op.ret.value, now)
    /\ UNCHANGED <<is_authenticated, sent, cookies, calls, rt>>

\* The operation is over; the next one may begin.
Return ==
    /\ op.epc = "done"
    /\ op' = IdleOp
    /\ sent' = <<>>
    /\ refreshes' = 0
    /\ UNCHANGED <<is_authenticated, data, cookies, calls, rt>>

(***************************************************************************)
(* The inputs and the remote's answers                                     *)
(***************************************************************************)
Descriptions ==
    {None,
     Some(<<"2", ".", "5", " ", "k", "g">>),
     Some(<<"0", " ", "k", "g">>),
     Some(<<"3", " ", "p", "i", "e", "z", "a", "s", " ", "p", "r", "o", "d", "u", "c",
            "t", "_", "i", "d", ":", "9", "9", "8", "8", "7", "7">>)}

Extras ==
    {None,
     Some([product_id |-> JStr(<<"5", "5">>), quantity |-> JInt(2),
           unit |-> JStr(<<"l", "t">>),
           measurement_type |-> JStr(<<"v", "o", "l", "u", "m", "e">>)]),
     Some([product_id |-> JNull, quantity |-> JNull, unit |-> JNull,
           measurement_type |-> JStr(<<"w", "e", "i", "g", "h", "t">>)])}

Uids == {<<"1">>, <<"9">>}

CreateItems ==
    {TodoItem(summary, None, NEEDS_ACTION, description, extra) :
        summary \in {<<>>, <<" ", "1", "2", "3">>, <<"l", "e", "c", "h", "e">>},
        description \in Descriptions, extra \in Extras}

UpdateItems ==
    {TodoItem(<<"x">>, uid, status, description, extra) :
        uid \in {None} \cup {Some(u) : u \in Uids}, status \in {NEEDS_ACTION, COMPLETED},
        description \in Descriptions, extra \in Extras}

Queries == {<<"l", "e", "c", "h", "e">>}

\* The identities a service call names (vol.Any(int, str)).
ServiceIds == {JInt(55), JStr(<<"1">>)}

\* The values of the update_item and set_quantity calls: nothing, a
\* quantity, a unit with a weight.
ServiceValues ==
    {ServiceArgs(None, None, None, None, None),
     ServiceArgs(None, Some(2 * Scale), None, None, None),
     ServiceArgs(None, None, Some(<<"k", "g">>), None, Some(150))}

\* {"orderItem": [{"orderItemId": "1", "productId": "55", "quantity": "2,5", "uom": "kg"}]}
CartA ==
    DataDict([orderItem |-> DataList(
        <<Some([orderItemId |-> JStr(<<"1">>), productId |-> JStr(<<"5", "5">>),
                quantity |-> JStr(<<"2", ",", "5">>), uom |-> JStr(<<"k", "g">>)])>>)])

\* [null, {"id": 2, "quantity": 0, "unit": "m2"}, {"productId": "56"}]
CartB ==
    DataList(<<None,
               Some([id |-> JInt(2), quantity |-> JInt(0), unit |-> JStr(<<"m", "2">>)]),
               Some([productId |-> JStr(<<"5", "6">>)])>>)

\* {"catalogEntryView": [{"partNumber": "777", "name": "Leche"}]}
SearchA ==
    DataDict([catalogEntryView |-> DataList(
        <<Some([partNumber |-> JStr(<<"7", "7", "7">>),
                name |-> JStr(<<"L", "e", "c", "h", "e">>)])>>)])

Responses ==
    <<Response(TRUE, 0, DataNull),
      Response(FALSE, 401, DataNull),
      Response(FALSE, 500, DataNull),
      Response(FALSE, 200, DataNull),
      Response(FALSE, 200, CartA),
      Response(FALSE, 200, CartB),
      Response(FALSE, 200, SearchA),
      Response(FALSE, 302, CartA)>>

(***************************************************************************)
(* The specification                                                       *)
(***************************************************************************)
\* The conversion chain normalise -> to checklist -> update merge, applied
\* to one record of a cart response (stage names the last step taken).
NoCartItem == CartItem(<<>>, <<>>, <<>>, 0, <<>>, <<>>, None)
RoundTrip(stage, raw, item, todo, merged) ==
    [stage |-> stage, raw |-> raw, item |-> item, todo |-> todo, merged |-> merged]
RtIdle ==
    RoundTrip("idle", [id |-> JNull, quantity |-> JNull, unit |-> JNull],
              NoCartItem, NoItem, NoArgs)

Init ==
    /\ is_authenticated = FALSE
    /\ data = <<>>
    /\ op = IdleOp
    /\ sent = <<>>
    /\ refreshes = 0
    /\ cookies = NoCookies
    /\ calls = NoCalls
    /\ rt = RtIdle

Next ==
    \/ \E item \in CreateItems : Create(item)
    \/ \E item \in UpdateItems : Update(item)
    \/ \E uid \in Uids : Delete(uid)
    \/ \E product_id \in ServiceIds, args \in ServiceValues : HandleAdd(product_id, args)
    \/ \E item_id \in ServiceIds : HandleRemove(item_id)
    \/ \E item_id \in ServiceIds, args \in ServiceValues :
            HandleUpdate("update_item", item_id, args)
    \/ \E item_id \in ServiceIds, args \in ServiceValues :
            HandleUpdate("set_quantity", item_id, args)
    \/ GetCart
    \/ \E query \in Queries : Search(query, 10)
    \/ \E i \in 1..Len(Responses) : Login(Responses[i])
    \/ \E i \in 1..Len(Responses) : Send(Responses[i])
    \/ \E now \in BOOLEAN : Resume(now)
    \/ Return

Spec == Init /\ [][Next]_vars

(***************************************************************************)
(* The conversions alone: a record of a cart response is normalised        *)
(* (_parse_cart_items), shown as a checklist item (_cart_item_to_todo) and *)
(* read back by the update merge (async_update_todo_item lines 124-137).   *)
(***************************************************************************)
\* {"id": 7, "quantity": q, "unit": u} with q among 0, 2, "2,5", 1.5, "0.05"
\* and null, u among null, "kg", "KGM", "lt", "Lb", "caja", "m2", "pieza(s)"
RawRecords ==
    {[id |-> JInt(7), quantity |-> quantity, unit |-> unit] :
        quantity \in {JInt(0), JInt(2), JStr(<<"2", ",", "5">>), JNum(150),
                      JStr(<<"0", ".", "0", "5">>), JNull},
        unit \in {JNull, JStr(<<"k", "g">>), JStr(<<"K", "G", "M">>), JStr(<<"l", "t">>),
                  JStr(<<"L", "b">>), JStr(<<"c", "a", "j", "a">>), JStr(<<"m", "2">>),
                  JStr(<<"p", "i", "e", "z", "a", "(", "s", ")">>)}}

RoundTripInit ==
    /\ is_authenticated = FALSE
    /\ data = <<>>
    /\ op = IdleOp
    /\ sent = <<>>
    /\ refreshes = 0
    /\ cookies = NoCookies
    /\ calls = NoCalls
    /\ rt \in {RoundTrip("raw", raw, NoCartItem, NoItem, NoArgs) : raw \in RawRecords}

\* ChedrauiClient._parse_cart_items on a response holding the record
Normalize ==
    /\ rt.stage = "raw"
    /\ rt' = [rt EXCEPT !.stage = "item",
                        !.item = _parse_cart_items(DataList(<<Some(rt.raw)>>))[1]]
    /\ UNCHANGED <<is_authenticated, data, op, sent, refreshes, cookies, calls>>

\* ChedrauiShoppingListEntity._cart_item_to_todo
ToChecklist ==
    /\ rt.stage = "item"
    /\ rt' = [rt EXCEPT !.stage = "todo", !.todo = _cart_item_to_todo(rt.item)]
    /\ UNCHANGED <<is_authenticated, data, op, sent, refreshes, cookies, calls>>

\* async_update_todo_item lines 124-137 on the item as shown
FromChecklistUpdate ==
    /\ rt.stage = "todo"
    /\ rt' = [rt EXCEPT !.stage = "merged", !.merged = UpdateMerge(rt.todo)]
    /\ UNCHANGED <<is_authenticated, data, op, sent, refreshes, cookies, calls>>

RoundTripNext == Normalize \/ ToChecklist \/ FromChecklistUpdate

SpecRoundTrip == RoundTripInit /\ [][RoundTripNext]_vars

(***************************************************************************)
(* The normalisers alone: _parse_cart_items and _parse_search_results      *)
(* applied to a decoded response body.                                     *)
(***************************************************************************)
\* The entries a response list is made of:
\*   {"orderItemId": "1", "productId": "55", "quantity": "2,5", "uom": "kg"}
\*   {"id": 2, "quantity": -2, "unit": "m2"}
\*   {"itemId": "3", "quantity": "-1.5", "measurementUnit": "lt"}
\*   {"productId": "56"}
\*   {"id": 0, "quantity": 1}
\*   {"orderItemId": "", "id": 5, "unit": ""}
\*   null
\*   "x"
BodyEntries ==
    <<Some([orderItemId |-> JStr(<<"1">>), productId |-> JStr(<<"5", "5">>),
            quantity |-> JStr(<<"2", ",", "5">>), uom |-> JStr(<<"k", "g">>)]),
      Some([id |-> JInt(2), quantity |-> JInt(0 - 2), unit |-> JStr(<<"m", "2">>)]),
      Some([itemId |-> JStr(<<"3">>), quantity |-> JStr(<<"-", "1", ".", "5">>),
            measurementUnit |-> JStr(<<"l", "t">>)]),
      Some([productId |-> JStr(<<"5", "6">>)]),
      Some([id |-> JInt(0), quantity |-> JInt(1)]),
      Some([orderItemId |-> JStr(<<>>), id |-> JInt(5), unit |-> JStr(<<>>)]),
      None,
      Scalar(JStr(<<"x">>))>>

\* The list of the entries numbered i and j (0 for no entry).
BodyList(i, j) ==
    (IF i = 0 THEN <<>> ELSE <<BodyEntries[i]>>) \o (IF j = 0 THEN <<>> ELSE <<BodyEntries[j]>>)

\* The response shapes that carry a list.
BodyShapes == {"orderItem", "orderItems", "both", "list", "catalogEntryView", "items", "docs"}

BodyOf(shape, list) ==
    CASE shape = "orderItem" -> DataDict([orderItem |-> DataList(list)])
      [] shape = "orderItems" -> DataDict([orderItems |-> DataList(list)])
      [] shape = "both" -> DataDict([orderItem |-> DataList(<<>>),
                                     orderItems |-> DataList(list)])
      [] shape = "list" -> DataList(list)
      [] shape = "catalogEntryView" -> DataDict([catalogEntryView |-> DataList(list)])
      [] shape = "items" -> DataDict([items |-> DataList(list)])
      [] shape = "docs" -> DataDict([product |-> DataDict([docs |-> DataList(list)])])

\* The other decoded values: null, a text, an envelope key whose value is
\* null, a text or a mapping.
OddBodies ==
    <<DataNull,
      DataText(<<>>),
      DataText(<<"o", "k">>),
      DataDict([orderItem |-> DataNull]),
      DataDict([orderItem |-> DataText(<<"a", "b">>)]),
      DataDict([orderItems |-> DataDict([a |-> DataNull])]),
      DataDict([catalogEntryView |-> DataNull]),
      DataDict([items |-> DataText(<<"a", "b">>)]),
      DataDict([product |-> DataNull, items |-> DataNull])>>

Normalization(stage, body, error, items, results) ==
    [stage |-> stage, body |-> body, error |-> error, items |-> items, results |-> results]

NormalizeInit ==
    /\ is_authenticated = FALSE
    /\ data = <<>>
    /\ op = IdleOp
    /\ sent = <<>>
    /\ refreshes = 0
    /\ cookies = NoCookies
    /\ calls = NoCalls
    /\ \/ \E shape \in BodyShapes, i, j \in 0..Len(BodyEntries) :
            rt = Normalization("body", BodyOf(shape, BodyList(i, j)), NoError, <<>>, <<>>)
       \/ \E k \in 1..Len(OddBodies) :
            rt = Normalization("body", OddBodies[k], NoError, <<>>, <<>>)

\* ChedrauiClient._parse_cart_items(body): it raises or returns the items.
NormalizeCart ==
    /\ rt.stage = "body"
    /\ rt' = [rt EXCEPT !.stage = "cart",
                        !.error = CartParseError(rt.body),
                        !.items = IF CartParseError(rt.body) = NoError
                                  THEN _parse_cart_items(rt.body) ELSE <<>>]
    /\ UNCHANGED <<is_authenticated, data, op, sent, refreshes, cookies, calls>>

\* ChedrauiClient._parse_search_results(body): it raises or returns the
\* summaries.
NormalizeSearch ==
    /\ rt.stage = "body"
    /\ rt' = [rt EXCEPT !.stage = "search",
                        !.error = SearchParseError(rt.body),
                        !.results = IF SearchParseError(rt.body) = NoError
                                    THEN _parse_search_results(rt.body) ELSE <<>>]
    /\ UNCHANGED <<is_authenticated, data, op, sent, refreshes, cookies, calls>>

NormalizeNext == NormalizeCart \/ NormalizeSearch

SpecNormalize == NormalizeInit /\ [][NormalizeNext]_vars

(***************************************************************************)
(* The text parser alone: _parse_text applied to a description.            *)
(***************************************************************************)
\* The descriptions are a prefix, a number, whitespace, a word and a suffix.
TextPrefixes == <<<<>>, <<"x", " ">>, <<"1", "2", " ">>, <<"1", " ", "a", " ">>,
                  <<"C", "a", "n", "t", "i", "d", "a", "d", ":", " ">>>>
TextNumbers == <<<<>>, <<"3">>, <<"2", ".", "5">>, <<"2", ",", "5">>, <<"0">>,
                 <<"1", ".", "2", ".", "5">>>>
TextSpaces == <<<<>>, <<" ">>>>
TextWords == <<<<>>, <<"k", "g">>, <<"p", "i", "e", "z", "a", "s">>, <<"L", "b">>,
               <<"x", "y", "z">>, <<"m", "2">>>>
TextSuffixes ==
    <<<<>>,
      <<" ", "p", "r", "o", "d", "u", "c", "t", "_", "i", "d", ":", "9", "9", "8", "8",
        "7", "7">>,
      <<" ", "P", "R", "O", "D", "U", "C", "T", "_", "I", "D", " ", "=", " ", "a", "_",
        "1", " ", "p", "r", "o", "d", "u", "c", "t", "_", "i", "d", ":", "2">>,
      <<" ", "p", "r", "o", "d", "u", "c", "t", "_", "i", "d", ":">>>>

Parsing(stage, text, parsed) == [stage |-> stage, text |-> text, parsed |-> parsed]

ParseInit ==
    /\ is_authenticated = FALSE
    /\ data = <<>>
    /\ op = IdleOp
    /\ sent = <<>>
    /\ refreshes = 0
    /\ cookies = NoCookies
    /\ calls = NoCalls
    /\ \E a \in 1..Len(TextPrefixes), b \in 1..Len(TextNumbers), c \in 1..Len(TextSpaces),
          d \in 1..Len(TextWords), e \in 1..Len(TextSuffixes) :
            rt = Parsing("text",
                         TextPrefixes[a] \o TextNumbers[b] \o TextSpaces[c] \o TextWords[d]
                            \o TextSuffixes[e],
                         ParsedText(None, None, None, None))

\* _parse_text(text)
Parse ==
    /\ rt.stage = "text"
    /\ rt' = [rt EXCEPT !.stage = "parsed", !.parsed = _parse_text(rt.text)]
    /\ UNCHANGED <<is_authenticated, data, op, sent, refreshes, cookies, calls>>

SpecParse == ParseInit /\ [][Parse]_vars

(***************************************************************************)
(* The cart payloads alone: the request async_add_to_cart and              *)
(* async_update_cart_item build from the values they are given.            *)
(***************************************************************************)
\* unit: none, "", "kg", "KG", " kg", "m2", "xyz", "Lt", "pieza(s)", "ea",
\* "MLT", "grm"
PayloadUnits ==
    <<None, Some(<<>>), Some(<<"k", "g">>), Some(<<"K", "G">>), Some(<<" ", "k", "g">>),
      Some(<<"m", "2">>), Some(<<"x", "y", "z">>), Some(<<"L", "t">>),
      Some(<<"p", "i", "e", "z", "a", "(", "s", ")">>), Some(<<"e", "a">>),
      Some(<<"M", "L", "T">>), Some(<<"g", "r", "m">>)>>

\* measurement_type: none, "", "piece", "weight", "VOLUME", "length"
PayloadTypes ==
    <<None, Some(<<>>), Some(<<"p", "i", "e", "c", "e">>),
      Some(<<"w", "e", "i", "g", "h", "t">>), Some(<<"V", "O", "L", "U", "M", "E">>),
      Some(<<"l", "e", "n", "g", "t", "h">>)>>

PayloadQuantities == <<None, Some(2 * Scale)>>

Payload(stage, args, req) == [stage |-> stage, args |-> args, req |-> req]

PayloadInit ==
    /\ is_authenticated = FALSE
    /\ data = <<>>
    /\ op = IdleOp
    /\ sent = <<>>
    /\ refreshes = 0
    /\ cookies = NoCookies
    /\ calls = NoCalls
    /\ \E u \in 1..Len(PayloadUnits), m \in 1..Len(PayloadTypes),
          q \in 1..Len(PayloadQuantities) :
            rt = Payload("args",
                         Args(Some(<<"5", "5">>), PayloadQuantities[q], PayloadUnits[u],
                              PayloadTypes[m]),
                         NoRequest)

\* async_add_to_cart lines 162-181 (quantity defaults to 1.0, line 155)
BuildAdd ==
    /\ rt.stage = "args"
    /\ rt' = [rt EXCEPT !.stage = "add",
                        !.req = AddRequest([rt.args EXCEPT
                                    !.quantity = OrDefault(rt.args.quantity, Some(Scale))])]
    /\ UNCHANGED <<is_authenticated, data, op, sent, refreshes, cookies, calls>>

\* async_update_cart_item lines 199-219
BuildUpdate ==
    /\ rt.stage = "args"
    /\ rt' = [rt EXCEPT !.stage = "update", !.req = UpdateRequest(<<"1">>, rt.args)]
    /\ UNCHANGED <<is_authenticated, data, op, sent, refreshes, cookies, calls>>

PayloadNext == BuildAdd \/ BuildUpdate

SpecPayload == PayloadInit /\ [][PayloadNext]_vars

(***************************************************************************)
(* The client alone: the coordinator's poll, a search and a removal        *)
(* against a remote whose responses set cookies.                           *)
(***************************************************************************)
CookieNames == {"sid", "route"}

ClientResponses ==
    <<Response(TRUE, 0, DataNull),
      WithCookies(Response(FALSE, 401, DataNull), [sid |-> Some("a")]),
      WithCookies(Response(FALSE, 500, DataNull), [sid |-> Some("b"), route |-> Some("x")]),
      Response(FALSE, 200, DataNull),
      WithCookies(Response(FALSE, 200, CartA), [sid |-> Some("c")]),
      WithCookies(Response(FALSE, 200, CartB), [route |-> Some("y")]),
      Response(FALSE, 200, DataList(<<Scalar(JStr(<<"x">>))>>)),
      TimedOut,
      TextResponse(200, <<>>),
      TextResponse(200, <<"[", "]">>),
      TextResponse(200, <<"o", "k">>)>>

ClientNext ==
    \/ GetCart
    \/ \E query \in Queries : Search(query, 10)
    \/ \E uid \in Uids : Delete(uid)
    \/ \E i \in 1..Len(ClientResponses) : Login(ClientResponses[i])
    \/ \E i \in 1..Len(ClientResponses) : Send(ClientResponses[i])
    \/ \E now \in BOOLEAN : Resume(now)
    \/ Return

SpecClient == Init /\ [][ClientNext]_vars

(***************************************************************************)
(* Feature calls that run concurrently on one client.  The client holds no *)
(* lock; a call runs until its next await, and the awaits that suspend it  *)
(* are the exchange (_request line 258) and the reading of the response    *)
(* body (lines 285, 303, 305).  Between two awaits no other call runs.     *)
(*   calls[t].cpc: the exchange the call awaits: "ensure" (the login of    *)
(*        async_ensure_authenticated), "send" (its own request),           *)
(*        "relogin" (the login after a 401), "retry" (the retried          *)
(*        request); "idle" before the call, "returned" after it            *)
(*   calls[t].reading: the response arrived and its body is being read     *)
(* What a call returns or raises is as in Login and Send above; here a     *)
(* call that is over is "returned" either way.                             *)
(***************************************************************************)
NumCalls == 2

Callers == 1..NumCalls

IdleCall ==
    [cpc |-> "idle", req |-> NoRequest, reading |-> FALSE,
     resp |-> Response(FALSE, 0, DataNull)]

\* The request each caller makes: a cart read or a removal.
RequestOfCaller(t) == IF t % 2 = 1 THEN GetCartRequest ELSE RemoveRequest(<<"1">>)

\* _request lines 258-265: the request goes out with the cookie set of the
\* moment; the record keeps the client's state of the moment.
Issued(req, authenticated, jar) ==
    [req EXCEPT !.authenticated = authenticated, !.cookies = jar]

\* A login that marks the client authenticated when its response arrives,
\* before the body is read.
LoginStateOnArrival(at, authenticated, succeeded) ==
    IF at = "arrived" /\ succeeded THEN TRUE ELSE authenticated

\* async_login lines 126-136: the client is marked authenticated once
\* _request has returned the body (line 136), not when the response arrives.
LoginState(at, authenticated, succeeded) ==
    IF at = "read" /\ succeeded THEN TRUE ELSE authenticated

\* A feature call begins: async_ensure_authenticated (lines 138-140), then
\* the login or the call's own request goes out (nothing awaited between).
CallBegins(t) ==
    /\ calls[t].cpc = "idle"
    /\ LET first == FirstStep(is_authenticated)
           req == RequestOfCaller(t)
       IN /\ calls' = [calls EXCEPT ![t] = [@ EXCEPT !.cpc = first, !.req = req]]
          /\ sent' = Append(sent, Issued(IF first = "send" THEN req ELSE LoginRequest,
                                         is_authenticated, cookies))
    /\ UNCHANGED <<is_authenticated, data, op, refreshes, cookies, rt>>

\* The awaited exchange is over (_request lines 266-282): the exchange
\* failed and the call raises, or the response arrived: its cookies are
\* kept, a 401 of the first attempt marks the client anonymous and sends the
\* login, any other response has its body read.
Arrives(t, resp) ==
    /\ calls[t].cpc \in {"ensure", "send", "relogin", "retry"}
    /\ ~calls[t].reading
    /\ cookies' = _update_cookies(cookies, resp)
    /\ LET out == RequestOutcome(resp, AllowReauth(calls[t].cpc))
       IN IF resp.err \/ resp.timeout
          THEN /\ calls' = [calls EXCEPT ![t] = [@ EXCEPT !.cpc = "returned"]]
               /\ UNCHANGED <<is_authenticated, sent>>
          ELSE IF out.kind = "reauth"
          THEN /\ is_authenticated' = FALSE
               /\ calls' = [calls EXCEPT ![t] = [@ EXCEPT !.cpc = "relogin"]]
               /\ sent' = Append(sent, Issued(LoginRequest, FALSE, cookies'))
          ELSE /\ is_authenticated' =
                      IF calls[t].cpc \in {"ensure", "relogin"}
                      THEN LoginState("arrived", is_authenticated, ~IsErrorStatus(resp.status))
                      ELSE is_authenticated
               /\ calls' = [calls EXCEPT ![t] = [@ EXCEPT !.reading = TRUE, !.resp = resp]]
               /\ UNCHANGED sent
    /\ UNCHANGED <<data, op, refreshes, rt>>

\* The body is read (_request lines 284-310).  A login that returned a body
\* marks the client authenticated and the call's request goes out
\* (async_login lines 133-136, then line 142 or line 276; nothing awaited
\* between); any other exchange ends the call.
Read(t) ==
    /\ calls[t].reading
    /\ LET c == calls[t]
           out == RequestOutcome(c.resp, AllowReauth(c.cpc))
       IN IF c.cpc \in {"ensure", "relogin"}
          THEN /\ is_authenticated' = LoginState("read", is_authenticated, LoginSucceeded(out))
               /\ IF LoginSucceeded(out)
                  THEN /\ calls' = [calls EXCEPT ![t] =
                                      [@ EXCEPT !.cpc = IF c.cpc = "ensure" THEN "send"
                                                        ELSE "retry",
                                                !.reading = FALSE,
                                                !.resp = IdleCall.resp]]
                       /\ sent' = Append(sent, Issued(c.req, is_authenticated', cookies))
                  ELSE /\ calls' = [calls EXCEPT ![t] =
                                      [@ EXCEPT !.cpc = "returned", !.reading = FALSE,
                                                !.resp = IdleCall.resp]]
                       /\ UNCHANGED sent
          ELSE /\ calls' = [calls EXCEPT ![t] =
                              [@ EXCEPT !.cpc = "returned", !.reading = FALSE,
                                        !.resp = IdleCall.resp]]
               /\ UNCHANGED <<is_authenticated, sent>>
    /\ UNCHANGED <<data, op, refreshes, cookies, rt>>

\* What the remote answers the concurrent calls.
ConcurrentResponses ==
    <<Response(TRUE, 0, DataNull),
      Response(FALSE, 401, DataNull),
      Response(FALSE, 200, DataNull),
      Response(FALSE, 200, CartA)>>

\* The client is anonymous after construction (line 113), authenticated
\* after an earlier call; the callers have not begun.
ConcurrentInit ==
    /\ is_authenticated \in BOOLEAN
    /\ data = <<>>
    /\ op = IdleOp
    /\ sent = <<>>
    /\ refreshes = 0
    /\ cookies = NoCookies
    /\ calls = [t \in Callers |-> IdleCall]
    /\ rt = RtIdle

ConcurrentNext ==
    \/ \E t \in Callers : CallBegins(t)
    \/ \E t \in Callers : \E i \in 1..Len(ConcurrentResponses) :
            Arrives(t, ConcurrentResponses[i])
    \/ \E t \in Callers : Read(t)

SpecConcurrent == ConcurrentInit /\ [][ConcurrentNext]_vars

(***************************************************************************)
(* Properties of the client's calls                                        *)
(***************************************************************************)
\* The response carries a 2xx status.
IsSuccess(resp) == ~resp.err /\ resp.status \in 200..299

\* The response carries status 401.
IsUnauthorized(resp) == ~resp.err /\ resp.status = 401

\* A login the client takes as failed: no response, an error status, or no
\* body.
LoginFailed(resp) == resp.err \/ resp.status >= 400 \/ resp.body.t = "null"

\* The requests of the current client call, and the indices of its feature
\* requests (seen[k] answers CallSent[k]).
CallSent == SubSeq(sent, op.first, Len(sent))
FeatureRequests == {k \in 1..Len(CallSent) : ~IsLogin(CallSent[k])}
LoginRequests == {k \in 1..Len(CallSent) : IsLogin(CallSent[k])}

\* The call is over and its caller has not resumed yet.
CallOver == op.cpc = "returned"

\* The current call began authenticated, got 401, logged in again and sent
\* its request again.
Retried ==
    /\ ~op.anon
    /\ Len(op.seen) = 3
    /\ IsUnauthorized(op.seen[1])
    /\ IsSuccess(op.seen[2]) /\ op.seen[2].body.t # "null"

C2_OneRetry ==
    /\ Cardinality(FeatureRequests) <= 2
    /\ Cardinality({k \in LoginRequests : \E j \in FeatureRequests : j < k}) <= 1
    /\ (CallOver /\ Cardinality(FeatureRequests) = 2
            /\ IsUnauthorized(op.seen[Len(op.seen)]))
        => op.ret = Raised(ChedrauiAuthError)
    /\ \A k \in 1..Len(op.seen) :
        (k \in LoginRequests /\ IsUnauthorized(op.seen[k]))
            => /\ k = Len(CallSent)
               /\ op.cpc \in {"returned", "none"}
               /\ op.ret = Raised(ChedrauiAuthError)

C2_Witness ==
    /\ CallOver /\ Retried
    /\ IsUnauthorized(op.seen[3])
    /\ Cardinality(FeatureRequests) = 2
    /\ op.ret = Raised(ChedrauiAuthError)

\* C3: a call begun while the client is anonymous sends the login request
\* first; when that login fails the call's own request is never sent and the
\* client stays anonymous.
C3_LoginFirst ==
    op.anon =>
        /\ Len(CallSent) >= 1 => IsLogin(CallSent[1])
        /\ (Len(op.seen) >= 1 /\ LoginFailed(op.seen[1]))
            => /\ FeatureRequests = {}
               /\ Len(CallSent) = 1
               /\ op.cpc \in {"returned", "none"}
               /\ op.ret.kind \in {"ChedrauiAuthError", "ChedrauiRequestError"}
               /\ ~is_authenticated

C3_Witness ==
    /\ op.anon
    /\ op.kind = "create"
    /\ op.epc = "done"
    /\ Len(op.seen) = 1 /\ op.seen[1].status = 500
    /\ CallSent = <<LoginRequest>>
    /\ ~is_authenticated

\* C4: after a response with status 401 the client is anonymous until a
\* later login succeeds.
C4_UnauthorizedMeansAnonymous ==
    \A k \in 1..Len(op.seen) :
        (/\ IsUnauthorized(op.seen[k])
         /\ ~\E j \in (k + 1)..Len(op.seen) :
                j \in LoginRequests /\ ~LoginFailed(op.seen[j]))
            => ~is_authenticated

\* C5: a response whose status is neither 2xx nor 401 makes the call raise
\* ChedrauiRequestError carrying that status.
C5_NonSuccessRaises ==
    (/\ CallOver
     /\ ~op.seen[Len(op.seen)].err
     /\ ~IsSuccess(op.seen[Len(op.seen)])
     /\ ~IsUnauthorized(op.seen[Len(op.seen)]))
        => /\ op.ret.kind = "ChedrauiRequestError"
           /\ op.ret.status = Some(op.seen[Len(op.seen)].status)

(***************************************************************************)
(* Properties of the checklist operations                                  *)
(***************************************************************************)
\* The operation is over.
Done == op.epc = "done"

\* The item of the operation is marked completed.
MarkedCompleted == op.item.status = COMPLETED

\* An update that is sent as an update: it has a uid and is not completed.
PlainUpdate == op.kind = "update" /\ IsSome(op.item.uid) /\ ~MarkedCompleted

\* The item ids of the snapshot.
SnapshotIds == {data[i].item_id : i \in 1..Len(data)}

\* The add of a create returned a response that normalises to no items.
AddFoundNothing ==
    /\ Done /\ op.kind = "create" /\ op.at = "mutate"
    /\ op.ret.kind = "ok"
    /\ _parse_cart_items(op.ret.value) = <<>>

\* The update went through (the refresh was requested) and the snapshot that
\* followed does not hold the item.
UpdateFoundNothing ==
    /\ Done /\ PlainUpdate
    /\ refreshes = 1
    /\ Val(op.item.uid) \notin SnapshotIds

SentWith(method) == {i \in 1..Len(sent) : sent[i].method = method}

\* C7: an update of a completed item sends DELETE for the item's uid and no
\* PUT, whatever its tags and description; once the removal has gone through
\* it requests a refresh and returns the item.  An update without uid raises
\* before anything is sent.
C7_CompletedRemoves ==
    /\ (op.kind = "update" /\ IsSome(op.item.uid) /\ MarkedCompleted)
        => /\ op.calls[1] = RemoveRequest(Val(op.item.uid))
           /\ \A i \in 2..Len(op.calls) : op.calls[i] = GetCartRequest
           /\ SentWith("PUT") = {}
           /\ \A i \in SentWith("DELETE") : sent[i].id = Val(op.item.uid)
           /\ (Done /\ op.result.kind = "ok")
                => /\ refreshes = 1
                   /\ SentWith("DELETE") # {}
                   /\ op.result.value = op.item
           /\ (Done /\ refreshes = 0) => op.result.kind # "ok"
    /\ (op.kind = "update" /\ IsNone(op.item.uid))
        => /\ Done
           /\ op.result = Raised(ValueError)
           /\ sent = <<>>
           /\ op.calls = <<>>

C7_Witness ==
    /\ Done /\ op.kind = "update" /\ MarkedCompleted
    /\ HasDescription(op.item) /\ HasExtra(op.item)
    /\ UpdateMerge(op.item).quantity # None
    /\ op.result.kind = "ok"
    /\ op.result.value = op.item
    /\ refreshes = 1
    /\ SentWith("DELETE") # {}

\* The calls of the operation that are searches, and those that are adds.
SearchCalls == {i \in 1..Len(op.calls) : IsSearch(op.calls[i])}
AddCalls == {i \in 1..Len(op.calls) : op.calls[i].method = "POST"}

\* A create whose tags and description give no product id.
Unresolved == op.kind = "create" /\ IsNone(CreateMerge(op.item).product_id)

\* C8 (states): with no product id from tags or description, a numeric
\* summary is the product id of the add and nothing is searched; another
\* non-blank summary is searched once with limit 1 before any add; a blank
\* summary, or a search that finds nothing, raises ValueError and nothing is
\* added.
C8_ResolveStates ==
    Unresolved =>
        LET summary == strip(op.item.summary)
        IN /\ (summary # <<>> /\ isdigit(summary))
                => /\ SearchCalls = {}
                   /\ op.calls[1] = AddRequest([CreateMerge(op.item) EXCEPT
                                                    !.product_id = Some(summary)])
           /\ (summary # <<>> /\ ~isdigit(summary))
                => /\ op.calls[1] = SearchRequest(summary, 1)
                   /\ SearchCalls = {1}
                   /\ AddCalls \subseteq {2}
                   /\ (Done /\ op.at = "resolve")
                        => /\ AddCalls = {}
                           /\ op.ret.kind = "ok" => op.result = Raised(ValueError)
           /\ summary = <<>>
                => /\ Done
                   /\ op.result = Raised(ValueError)
                   /\ op.calls = <<>>
                   /\ sent = <<>>

\* C8 (steps): when the search has returned, the add that follows carries
\* the product id of the first result, and there is no add when there is no
\* result.
C8_ResolveStep ==
    (op.epc = "resolve" /\ op.cpc = "returned" /\ op.ret.kind = "ok" /\ Unresolved)
        => IF _parse_search_results(op.ret.value) = <<>>
           THEN op'.epc = "done" /\ op'.result = Raised(ValueError) /\ op'.calls = op.calls
           ELSE /\ op'.epc = "mutate"
                /\ op'.req.method = "POST"
                /\ op'.req.id = _parse_search_results(op.ret.value)[1].product_id
                /\ op'.calls = Append(op.calls, op'.req)

\* C8: the product of a create that carries no product id.
C8_Resolve == []C8_ResolveStates /\ [][C8_ResolveStep]_vars

C8_Witness ==
    /\ Unresolved
    /\ isdigit(strip(op.item.summary))
    /\ Done /\ op.result.kind = "ok"
    /\ SearchCalls = {}
    /\ \E i \in SentWith("POST") : sent[i].id = strip(op.item.summary)

\* The operation merges tags and description: a create, or an update that is
\* sent as an update.
Merging == (op.kind = "create" \/ PlainUpdate) /\ HasDescription(op.item)

\* C9: every field the parsed description gives replaces the tag's value,
\* a parsed quantity of 0 included; a field it does not give keeps the tag's
\* value (on create quantity 1.0 without a tag).
C9_ParsedOverridesTags ==
    Merging =>
        LET parsed == _parse_text(Val(op.item.description))
            tags == TagArgs(op.item, IF op.kind = "create" THEN Some(Scale) ELSE None)
        IN /\ op.args.quantity = OrDefault(parsed.quantity, tags.quantity)
           /\ op.args.unit = OrDefault(parsed.unit, tags.unit)
           /\ op.args.measurement_type
                = OrDefault(parsed.measurement_type, tags.measurement_type)
           /\ (op.kind = "create" /\ IsSome(parsed.product_id))
                => op.args.product_id = parsed.product_id

\* C10: the update merge of a cart item shown as a checklist item gives the
\* item's quantity, unit and measurement type.
C10_RoundTrip ==
    rt.stage = "merged"
        => /\ rt.merged.quantity = Some(rt.item.quantity)
           /\ rt.merged.unit = Some(rt.item.unit)
           /\ rt.merged.measurement_type = Some(rt.item.measurement_type)
(***************************************************************************)
(* Properties of the cookie set                                            *)
(***************************************************************************)
\* The value a cookie set holds for name, if any.
JarGet(jar, name) == IF name \in DOMAIN jar THEN Some(jar[name]) ELSE None

\* The response arrived and sets the cookie name.
SetsCookie(resp, name) == ~resp.err /\ name \in DOMAIN resp.cookies

\* The value of the cookie name once the first j responses of the current
\* call have arrived: that of the latest of them that set it, else the one
\* the call began with.
CookieAfter(name, j) ==
    LET setters == {k \in 1..j : SetsCookie(op.seen[k], name)}
    IN IF setters # {}
       THEN op.seen[CHOOSE k \in setters : \A l \in setters : l <= k].cookies[name]
       ELSE JarGet(CallSent[1].cookies, name)

C11_CookieStates ==
    Len(CallSent) >= 1 =>
        \A name \in CookieNames :
            /\ JarGet(cookies, name) = CookieAfter(name, Len(op.seen))
            /\ \A j \in 1..Len(CallSent) :
                    JarGet(CallSent[j].cookies, name) = CookieAfter(name, j - 1)

C11_CookieStep ==
    /\ DOMAIN cookies \subseteq DOMAIN cookies'
    /\ Len(sent') = Len(sent) + 1 => sent'[Len(sent')].cookies = cookies
    /\ \A name \in DOMAIN cookies :
            cookies'[name] # cookies[name]
                => /\ Len(op'.seen) = Len(op.seen) + 1
                   /\ SetsCookie(op'.seen[Len(op'.seen)], name)

\* C11: the cookie set holds every cookie name a response has returned so
\* far, whatever the response's status; no name is ever removed; each name
\* carries the value of the most recent response that set it; and every
\* request is sent with the set accumulated up to that point.
C11_CookiesAccumulate == []C11_CookieStates /\ [][C11_CookieStep]_vars

C11_Witness ==
    /\ Len(op.seen) = 3
    /\ IsUnauthorized(op.seen[1])
    /\ op.seen[3].status = 500
    /\ JarGet(CallSent[1].cookies, "route") = Some("y")
    /\ JarGet(CallSent[2].cookies, "sid") = Some("a")
    /\ JarGet(CallSent[3].cookies, "sid") = Some("c")
    /\ cookies = [sid |-> "b", route |-> "x"]

(***************************************************************************)
(* Properties of the normalisers                                           *)
(***************************************************************************)
IdentityKeys == {"orderItemId", "id", "itemId"}

\* The entry is a record (a mapping).
IsRecord(entry) == Len(entry) = 1

\* The record has an identity key.
HasIdentityKey(raw) == \E key \in IdentityKeys : key \in DOMAIN raw /\ raw[key].t # "null"

\* The list a cart response of the shapes of the claim carries: the
\* orderItem list, else the orderItems list, else the bare list, else none.
ResponseList(body) ==
    CASE body.t = "dict" /\ "orderItem" \in DOMAIN body.m /\ body.m["orderItem"].list # <<>>
            -> body.m["orderItem"].list
      [] body.t = "dict" /\ "orderItems" \in DOMAIN body.m -> body.m["orderItems"].list
      [] body.t = "list" -> body.list
      [] OTHER -> <<>>

\* The body is a cart response whose list holds records and nulls only.
IsCartResponse(body) ==
    /\ body.t \in {"null", "list"} \/ (body.t = "dict" /\ DOMAIN body.m \subseteq
                                                          {"orderItem", "orderItems"})
    /\ body.t = "dict" => \A key \in DOMAIN body.m : body.m[key].t = "list"
    /\ \A k \in 1..Len(ResponseList(body)) : Len(ResponseList(body)[k]) <= 1

\* The records of the list that have an identity key, in order.
Identified(list) == SelectSeq(list, LAMBDA entry : IsRecord(entry) /\ HasIdentityKey(entry[1]))

\* C12: for a cart response (a mapping with an orderItem list, a mapping
\* with an orderItems list, a bare list, an empty response, null)
\* normalize_cart returns, in input order, exactly one CartItem for each
\* record that has an identity key among orderItemId, id, itemId, and none
\* for the other records.
C12_OneItemPerIdentifiedRecord ==
    (rt.stage = "cart" /\ IsCartResponse(rt.body))
        => /\ rt.error = NoError
           /\ Len(rt.items) = Len(Identified(ResponseList(rt.body)))
           /\ \A k \in 1..Len(rt.items) :
                \E key \in IdentityKeys \cap DOMAIN Identified(ResponseList(rt.body))[k][1] :
                    rt.items[k].item_id = PyStr(Identified(ResponseList(rt.body))[k][1][key])

\* C13: normalize_cart and normalize_search raise nothing, whatever the
\* decoded response value.
C13_NormalizersNeverRaise ==
    rt.stage \in {"cart", "search"} => rt.error = NoError

\* C14: every CartItem has a non-empty unit, and its measurement_type is
\* the Unit Table category of that unit, or piece for a unit outside the six
\* canonical codes; quantity "2,5" with uom "kg" yields 2.5, KGM, weight.
C14_UnitAndType ==
    rt.stage = "cart" =>
        /\ \A k \in 1..Len(rt.items) :
            /\ rt.items[k].unit # <<>>
            /\ rt.items[k].measurement_type =
                    (IF rt.items[k].unit \in DOMAIN UNIT_TO_MEASUREMENT_TYPE
                     THEN UNIT_TO_MEASUREMENT_TYPE[rt.items[k].unit]
                     ELSE MEASUREMENT_TYPE_PIECE)
        /\ rt.body = CartA =>
            /\ Len(rt.items) = 1
            /\ rt.items[1].quantity = 250
            /\ rt.items[1].unit = <<"K", "G", "M">>
            /\ rt.items[1].measurement_type = <<"w", "e", "i", "g", "h", "t">>

C14_Witness ==
    /\ rt.stage = "cart"
    /\ Len(rt.items) = 2
    /\ rt.items[1].unit = <<"K", "G", "M">>
    /\ rt.items[1].measurement_type = <<"w", "e", "i", "g", "h", "t">>
    /\ rt.items[1].quantity = 250
    /\ rt.items[2].unit = <<"M", "2">>
    /\ rt.items[2].measurement_type = <<"p", "i", "e", "c", "e">>

\* C15: every CartItem normalize_cart returns has a non-negative quantity,
\* whatever the remote record carries.
C15_QuantityNonNegative ==
    rt.stage = "cart" => \A k \in 1..Len(rt.items) : rt.items[k].quantity >= 0

(***************************************************************************)
(* Properties of the text parser                                           *)
(***************************************************************************)
\* x is a number: digits, or digits with one separator (point or comma)
\* between them.
NumberText(x) ==
    /\ Len(x) >= 1
    /\ \/ \A k \in 1..Len(x) : IsDigit(x[k])
       \/ \E p \in 2..(Len(x) - 1) :
            /\ x[p] \in {".", ","}
            /\ \A k \in (1..Len(x)) \ {p} : IsDigit(x[k])

\* The ends (exclusive) of the numbers that start at i.
NumberEnds(text, i) == {j \in (i + 1)..(Len(text) + 1) : NumberText(SubSeq(text, i, j - 1))}

\* The starts of the letter-words that follow position j after whitespace.
WordStarts(text, j) ==
    {k \in j..Len(text) : IsLetter(text[k]) /\ \A p \in j..(k - 1) : IsSpace(text[p])}

\* The ends (exclusive) of the letter-words that start at k.
WordEnds(text, k) ==
    {l \in (k + 1)..(Len(text) + 1) : \A p \in k..(l - 1) : IsLetter(text[p])}

\* The positions where an occurrence of number, whitespace, word starts.
OccurrenceStarts(text) ==
    {i \in 1..Len(text) : \E j \in NumberEnds(text, i) : WordStarts(text, j) # {}}

Least(set) == CHOOSE x \in set : \A y \in set : x <= y
Greatest(set) == CHOOSE x \in set : \A y \in set : y <= x

\* The longest number at i that a word follows, and that word, the longest.
OccurrenceNumberEnd(text, i) ==
    Greatest({j \in NumberEnds(text, i) : WordStarts(text, j) # {}})
OccurrenceWord(text, k) == SubSeq(text, k, Greatest(WordEnds(text, k)) - 1)
OccurrenceUnit(text, j) == ResolveAlias(OccurrenceWord(text, Least(WordStarts(text, j))))

\* The positions where a product_id tag with a value starts, and the value.
TagValueStarts(text, i) ==
    {w \in (i + Len(ProductIdTag) + 1)..Len(text) :
        /\ lower(SubSeq(text, i, i + Len(ProductIdTag) - 1)) = ProductIdTag
        /\ IsWordChar(text[w])
        /\ \E sep \in (i + Len(ProductIdTag))..(w - 1) :
            /\ text[sep] \in {":", "="}
            /\ \A p \in ((i + Len(ProductIdTag))..(w - 1)) \ {sep} : IsSpace(text[p])}
TagStarts(text) == {i \in 1..Len(text) : TagValueStarts(text, i) # {}}
TagValue(text, w) ==
    SubSeq(text, w, Greatest({l \in (w + 1)..(Len(text) + 1) :
                                \A p \in w..(l - 1) : IsWordChar(text[p])}) - 1)

\* What the description says: the first occurrence and the first tag.
Described(text) ==
    [quantity |-> IF OccurrenceStarts(text) = {} THEN None
                  ELSE StrToFloat(ReplaceComma(
                        SubSeq(text, Least(OccurrenceStarts(text)),
                               OccurrenceNumberEnd(text, Least(OccurrenceStarts(text))) - 1))),
     unit |-> IF OccurrenceStarts(text) = {} THEN None
              ELSE Some(OccurrenceUnit(text, OccurrenceNumberEnd(
                                                text, Least(OccurrenceStarts(text))))),
     measurement_type |->
        IF OccurrenceStarts(text) = {} THEN None
        ELSE MeasurementTypeGet(OccurrenceUnit(text, OccurrenceNumberEnd(
                                                text, Least(OccurrenceStarts(text))))),
     product_id |-> IF TagStarts(text) = {} THEN None
                    ELSE Some(TagValue(text, Least(TagValueStarts(
                                                    text, Least(TagStarts(text))))))]

\* C16: parse(text) takes the first left-to-right occurrence of a number,
\* optional whitespace and a letter-word: the number (comma read as decimal
\* point) is the quantity, the word resolved through the alias table the
\* unit, the Unit Table category of that unit the measurement_type; the
\* value of the first product_id tag is the product_id; what does not occur
\* is null.  "2.5 kg" gives (2.5, KGM, weight, null) and
\* "3 piezas product_id:998877" gives (3, EA, piece, "998877").
C16_ParseFirstOccurrence ==
    rt.stage = "parsed" =>
        /\ rt.parsed = Described(rt.text)
        /\ rt.text = <<"2", ".", "5", " ", "k", "g">>
            => rt.parsed = [quantity |-> Some(250), unit |-> Some(<<"K", "G", "M">>),
                            measurement_type |-> Some(<<"w", "e", "i", "g", "h", "t">>),
                            product_id |-> None]
        /\ rt.text = <<"3", " ", "p", "i", "e", "z", "a", "s", " ", "p", "r", "o", "d", "u",
                       "c", "t", "_", "i", "d", ":", "9", "9", "8", "8", "7", "7">>
            => rt.parsed = [quantity |-> Some(300), unit |-> Some(<<"E", "A">>),
                            measurement_type |-> Some(<<"p", "i", "e", "c", "e">>),
                            product_id |-> Some(<<"9", "9", "8", "8", "7", "7">>)]

C16_Witness ==
    /\ rt.stage = "parsed"
    /\ rt.text = <<"1", " ", "a", " ", "2", ",", "5", " ", "k", "g", " ", "P", "R", "O",
                   "D", "U", "C", "T", "_", "I", "D", " ", "=", " ", "a", "_", "1", " ",
                   "p", "r", "o", "d", "u", "c", "t", "_", "i", "d", ":", "2">>
    /\ rt.parsed = [quantity |-> Some(100), unit |-> Some(<<"A">>),
                    measurement_type |-> None, product_id |-> Some(<<"a", "_", "1">>)]

(***************************************************************************)
(* Properties of _request's decoding and timeout                           *)
(***************************************************************************)
\* json.loads(text) for the texts of the model: the decoded value, or None
\* when the text is not JSON.
JsonLoads(text) ==
    CASE text = <<"[", "]">> -> Some(DataList(<<>>))
      [] text = <<"{", "}">> -> Some(DataDict(<<>>))
      [] text = <<"n", "u", "l", "l">> -> Some(DataNull)
      [] OTHER -> None

\* The latest exchange of the current call is the call's own request.
FeatureExchange == Len(op.seen) >= 1 /\ Len(op.seen) \in FeatureRequests

\* The latest response of the current call.
LastSeen == op.seen[Len(op.seen)]

\* C17: a successful response whose content type is not JSON is handled
\* without error: the call returns null for an empty body, the decoded
\* value for a body that is JSON, the raw text otherwise.
C17_NonJsonBodyHandled ==
    (CallOver /\ FeatureExchange /\ ~LastSeen.err /\ ~LastSeen.timeout
        /\ LastSeen.status \in 200..299 /\ LastSeen.content_type # JsonContentType)
        => /\ op.ret.kind = "ok"
           /\ op.ret.value = (IF LastSeen.text = <<>> THEN DataNull
                              ELSE IF IsSome(JsonLoads(LastSeen.text))
                              THEN Val(JsonLoads(LastSeen.text))
                              ELSE DataText(LastSeen.text))

\* C18: a request that gets no response within the timeout makes the call
\* raise ChedrauiRequestError, as a transport error does.
C18_TimeoutRaisesRequestError ==
    (CallOver /\ Len(op.seen) >= 1 /\ LastSeen.timeout)
        => op.ret = Raised(ChedrauiRequestError(None))

(***************************************************************************)
(* Properties of the refresh after a mutation                              *)
(***************************************************************************)
\* The operation changes the cart: a checklist create, update, completion
\* or delete, or an add_item, remove_item, update_item or set_quantity call.
Mutating == op.kind \in {"create", "update", "delete"} \cup ServiceKinds

\* The mutation's client call is over (it has completed successfully when
\* it returned: op.ret.kind is "ok").
MutationOver == op.epc = "mutate" /\ op.cpc = "returned"

C19_RefreshStates ==
    Mutating =>
        /\ refreshes <= 1
        /\ op.epc \in {"resolve", "mutate"} => refreshes = 0
        /\ op.epc = "refresh" => refreshes = 1
        /\ Done => (op.result.kind = "ok" <=> refreshes = 1)

C19_RefreshStep ==
    /\ refreshes' = refreshes + 1
        => /\ Mutating /\ MutationOver
           /\ op.ret.kind = "ok"
           /\ ~LastSeen.err /\ ~LastSeen.timeout
           /\ op.req.method \in {"POST", "PUT", "DELETE"} \/ op.req = GetCartRequest
    /\ (Mutating /\ MutationOver /\ op.ret.kind # "ok")
        => /\ op'.epc = "done"
           /\ op'.result = op.ret
           /\ refreshes' = 0

\* C19: a cart-mutating operation (checklist create, update, complete,
\* delete; the add_item, remove_item, update_item and set_quantity handlers)
\* requests the refresh exactly once, and only after the mutation's remote
\* call has completed successfully; when the mutation raises, the error
\* reaches the caller, no refresh is requested and no success value is
\* returned.
C19_RefreshAfterMutation == []C19_RefreshStates /\ [][C19_RefreshStep]_vars

C19_Witness ==
    /\ Done
    /\ op.kind = "set_quantity"
    /\ SentWith("PUT") # {}
    /\ op.result.kind = "ok"
    /\ op.at = "refresh"
    /\ refreshes = 1

(***************************************************************************)
(* Properties of the uom sent                                              *)
(***************************************************************************)
CanonicalCodes ==
    {<<"E", "A">>, <<"K", "G", "M">>, <<"G", "R", "M">>, <<"L", "B", "R">>,
     <<"L", "T", "R">>, <<"M", "L", "T">>}

\* The value is supplied: present and not empty.
Supplied(o) == IsSome(o) /\ Val(o) # <<>>

\* The canonical code of a unit spelling: its alias, the spelling itself
\* (uppercased) when it is a canonical code, else EA.
CodeOf(unit) ==
    IF IsSome(AliasGet(lower(unit))) THEN Val(AliasGet(lower(unit)))
    ELSE IF upper(unit) \in CanonicalCodes THEN upper(unit)
    ELSE <<"E", "A">>

\* The default unit of a measurement type, if the type is known.
DefaultCodeOf(measurement_type) ==
    CASE lower(measurement_type) = <<"p", "i", "e", "c", "e">> -> Some(<<"E", "A">>)
      [] lower(measurement_type) = <<"w", "e", "i", "g", "h", "t">> -> Some(<<"K", "G", "M">>)
      [] lower(measurement_type) = <<"v", "o", "l", "u", "m", "e">> -> Some(<<"L", "T", "R">>)
      [] OTHER -> None

\* C20: in every POST and PUT to the cart the uom is absent or one of EA,
\* KGM, GRM, LBR, LTR, MLT: a supplied unit decides alone (an unrecognized
\* spelling is sent as EA), whatever the measurement_type; without a unit
\* the measurement_type is sent as its default unit (piece EA, weight KGM,
\* volume LTR) and the uom is omitted when the type is unknown or absent.
C20_UomCanonical ==
    (rt.stage \in {"add", "update"} /\ rt.req.method \in {"POST", "PUT"})
        => /\ IsNone(rt.req.uom) \/ Val(rt.req.uom) \in CanonicalCodes
           /\ rt.req.uom =
                (IF Supplied(rt.args.unit) THEN Some(CodeOf(Val(rt.args.unit)))
                 ELSE IF Supplied(rt.args.measurement_type)
                 THEN DefaultCodeOf(Val(rt.args.measurement_type))
                 ELSE None)

C20_Witness ==
    /\ rt.stage = "update"
    /\ rt.req.method = "PUT"
    /\ rt.args.unit = Some(<<"x", "y", "z">>)
    /\ rt.args.measurement_type = Some(<<"w", "e", "i", "g", "h", "t">>)
    /\ rt.req.uom = Some(<<"E", "A">>)

\* The requests sent that are feature requests (not logins).
FeatureRequestsSent == {i \in 1..Len(sent) : ~IsLogin(sent[i])}

\* Every feature request sent went out in the authenticated state.
C21_SentStates == \A i \in FeatureRequestsSent : sent[i].authenticated

\* A step that sends a feature request leaves the client authenticated.
C21_SentStep ==
    (Len(sent') = Len(sent) + 1 /\ ~IsLogin(sent'[Len(sent')])) => is_authenticated'

\* C21: when two or more feature calls run concurrently on one client, no
\* feature request (first attempt or retry) goes out while the client is
\* anonymous: each one that went out did so in the authenticated state, and
\* in every step that sends one the client is authenticated as it goes out;
\* the 401 handling of one call never makes another call's request or retry
\* go out in the anonymous state.
C21_NoAnonymousFeatureRequest == []C21_SentStates /\ [][C21_SentStep]_vars

\* One call's 401 has marked the client anonymous and its login is awaited
\* while the other call's retry, sent after that call's own login, is in
\* flight; both callers' requests went out.
C21_Witness ==
    /\ ~is_authenticated
    /\ \E t, u \in Callers :
          /\ t # u
          /\ calls[t].cpc = "relogin"
          /\ calls[u].cpc = "retry" /\ ~calls[u].reading
          /\ \E i, j \in FeatureRequestsSent :
                /\ sent[i] = Issued(calls[u].req, TRUE, sent[i].cookies)
                /\ sent[j] = Issued(calls[t].req, TRUE, sent[j].cookies)
                /\ i # j

====
